---- MODULE Spec2Model ----
(***************************************************************************)
(* Credit Log: decoding of MSG01/MSG02/MSG05/MSG07 fragments               *)
(* (src/msgClasses.js) and the upload / join / render pipeline             *)
(* (src/unnamed/part_000, the page script).                                *)
(*                                                                         *)
(* JavaScript values are tagged records, so null, strings, numbers and NaN *)
(* are distinct values that can be compared with each other.  Strings are  *)
(* TLA+ strings; numbers are exact fractions num/den in lowest terms.      *)
(***************************************************************************)
EXTENDS Integers, Sequences, FiniteSets, TLC

VARIABLES
    uploadedFiles,         \* let uploadedFiles: the documents last selected
    processButtonDisabled, \* processButton.disabled
    allMsg01s,             \* Map key -> MSG01 instance
    allMsg02s,             \* array of MSG02 instances
    allMsg05s,             \* array of MSG05 instances
    allMsg07s,             \* array of MSG07 instances
    exchangeRates,         \* let exchangeRates: null or the fetched table
    runs,                  \* the click handler's invocations (closures)
    output,                \* what displayTable last rendered
    hist,                  \* history of store reads/writes since the last reset
    arg,                   \* input of the pure function under check
    ret                    \* its result

vars == <<uploadedFiles, processButtonDisabled, allMsg01s, allMsg02s,
          allMsg05s, allMsg07s, exchangeRates, runs, output, hist, arg, ret>>

pipelineVars == <<uploadedFiles, processButtonDisabled, allMsg01s, allMsg02s,
                  allMsg05s, allMsg07s, exchangeRates, runs, output, hist>>

----------------------------------------------------------------------------
(* JavaScript values *)

Null == [t |-> "null"]
NaN == [t |-> "NaN"]
Undefined == [t |-> "undefined"]
EmptyObject == [t |-> "object"]
Str(s) == [t |-> "string", s |-> s]

RECURSIVE Gcd(_, _)
Gcd(a, b) == IF b = 0 THEN a ELSE Gcd(b, a % b)

Abs(n) == IF n < 0 THEN -n ELSE n

\* the number num/den (den > 0), in lowest terms
Frac(num, den) ==
    LET g == Gcd(Abs(num), den)
    IN  [t |-> "number", num |-> num \div g, den |-> den \div g]

Num(n) == Frac(n, 1)

IsString(v) == v.t = "string"
IsNumber(v) == v.t = "number"

Throw(msg) == [threw |-> TRUE, error |-> msg]
Return(v) == [threw |-> FALSE, value |-> v]

----------------------------------------------------------------------------
(* Strings *)

Char(s, i) == SubSeq(s, i, i)

\* String.prototype.includes
Includes(s, p) ==
    \E i \in 1..(Len(s) - Len(p) + 1) : SubSeq(s, i, i + Len(p) - 1) = p

\* String.prototype.substring(0, n) / slice(0, n) for n >= 0
Prefix(s, n) == SubSeq(s, 1, IF n < Len(s) THEN n ELSE Len(s))

\* the upper-case letter of each lower-case letter
UpperLetters ==
    ("a" :> "A") @@ ("b" :> "B") @@ ("c" :> "C") @@ ("d" :> "D") @@ ("e" :> "E") @@
    ("f" :> "F") @@ ("g" :> "G") @@ ("h" :> "H") @@ ("i" :> "I") @@ ("j" :> "J") @@
    ("k" :> "K") @@ ("l" :> "L") @@ ("m" :> "M") @@ ("n" :> "N") @@ ("o" :> "O") @@
    ("p" :> "P") @@ ("q" :> "Q") @@ ("r" :> "R") @@ ("s" :> "S") @@ ("t" :> "T") @@
    ("u" :> "U") @@ ("v" :> "V") @@ ("w" :> "W") @@ ("x" :> "X") @@ ("y" :> "Y") @@
    ("z" :> "Z")

UpperChar(c) == IF c \in DOMAIN UpperLetters THEN UpperLetters[c] ELSE c

RECURSIVE ToUpperCase(_)
ToUpperCase(s) ==
    IF s = "" THEN "" ELSE UpperChar(Char(s, 1)) \o ToUpperCase(SubSeq(s, 2, Len(s)))

\* the value of each decimal digit
Digits ==
    ("0" :> 0) @@ ("1" :> 1) @@ ("2" :> 2) @@ ("3" :> 3) @@ ("4" :> 4) @@
    ("5" :> 5) @@ ("6" :> 6) @@ ("7" :> 7) @@ ("8" :> 8) @@ ("9" :> 9)

IsDigit(c) == c \in DOMAIN Digits
DigitVal(c) == Digits[c]
AllDigits(s) == \A i \in 1..Len(s) : IsDigit(Char(s, i))
IsLetter(c) == c \in DOMAIN UpperLetters \/ \E l \in DOMAIN UpperLetters : UpperLetters[l] = c

RECURSIVE DigitsValue(_)
DigitsValue(s) ==
    IF s = "" THEN 0
    ELSE DigitsValue(SubSeq(s, 1, Len(s) - 1)) * 10 + DigitVal(Char(s, Len(s)))

RECURSIVE Pow10(_)
Pow10(n) == IF n = 0 THEN 1 ELSE 10 * Pow10(n - 1)

IsSpace(c) == c \in {" ", "\t", "\n", "\r"}

RECURSIVE TrimStart(_)
TrimStart(s) ==
    IF s # "" /\ IsSpace(Char(s, 1)) THEN TrimStart(SubSeq(s, 2, Len(s))) ELSE s

RECURSIVE TrimEnd(_)
TrimEnd(s) ==
    IF s # "" /\ IsSpace(Char(s, Len(s))) THEN TrimEnd(SubSeq(s, 1, Len(s) - 1)) ELSE s

\* the value of an unsigned decimal literal "ddd", "ddd.ddd", ".ddd" or "ddd.";
\* NaN for any other text
DecimalLiteral(body) ==
    LET dots == {i \in 1..Len(body) : Char(body, i) = "."}
    IN  IF dots = {}
        THEN IF body # "" /\ AllDigits(body) THEN Num(DigitsValue(body)) ELSE NaN
        ELSE LET i == CHOOSE d \in dots : TRUE
                 ip == SubSeq(body, 1, i - 1)
                 fp == SubSeq(body, i + 1, Len(body))
             IN  IF Cardinality(dots) = 1 /\ AllDigits(ip) /\ AllDigits(fp)
                    /\ (ip # "" \/ fp # "")
                 THEN Frac(DigitsValue(ip) * Pow10(Len(fp)) + DigitsValue(fp),
                           Pow10(Len(fp)))
                 ELSE NaN

Negate(v) == IF IsNumber(v) THEN Frac(-v.num, v.den) ELSE v

SignedLiteral(t) ==
    IF t # "" /\ Char(t, 1) = "-" THEN Negate(DecimalLiteral(SubSeq(t, 2, Len(t))))
    ELSE IF t # "" /\ Char(t, 1) = "+" THEN DecimalLiteral(SubSeq(t, 2, Len(t)))
    ELSE DecimalLiteral(t)

\* Number(text): white space is trimmed, the empty text is 0, a decimal
\* literal is its value and any other text is NaN.  (Exponents, hexadecimal
\* literals and "Infinity" are outside the texts the model draws.)
StringToNumber(s) ==
    LET t == TrimEnd(TrimStart(s))
    IN  IF t = "" THEN Num(0) ELSE SignedLiteral(t)

----------------------------------------------------------------------------
(* XML fragments.  A parsed element is its children by tag name: a leaf    *)
(* element carries its text, a block element its own children.             *)

NoElem == [t |-> "none"]
Leaf(text) == [t |-> "leaf", text |-> text]
Block(c) == [t |-> "block", c |-> c]

\* element.querySelector(tagName): the child of that name, or null
querySelector(children, tagName) ==
    IF tagName \in DOMAIN children THEN children[tagName] ELSE NoElem

getElementText(children, tagName) ==
    LET node == querySelector(children, tagName)
    IN  IF node # NoElem THEN Str(node.text) ELSE Null

getElementNumberNaNAsNull(children, tagName) ==
    LET text == getElementText(children, tagName)
        n == IF text # Null /\ text # Str("") THEN StringToNumber(text.s) ELSE Null
    IN  IF n = NaN THEN Null ELSE n

getElementNumber(children, tagName) ==
    LET text == getElementText(children, tagName)
    IN  IF text # Null /\ text # Str("") THEN StringToNumber(text.s) ELSE Null

\* ToBoolean
Truthy(v) ==
    ~(v \in {Null, Undefined, NaN, Str(""), Num(0)})

OrElseKeepsFirst(a, b) == a

\* a || b
OrElse(a, b) == IF Truthy(a) THEN a ELSE b

\* the object built from one block element: every text leaf through
\* getElementText, every numeric leaf through getElementNumber
Extract(el, textLeaves, numberLeaves) ==
    [leaf \in textLeaves \cup numberLeaves |->
        IF leaf \in numberLeaves THEN getElementNumber(el.c, leaf)
        ELSE getElementText(el.c, leaf)]

MsgInfoText == {"SenderCode", "ReceiverCode", "CreatedBy", "DateTime"}
MsgInfoNumber == {"SequenceNr", "Status"}
FactorText == {"FactorCode", "FactorName"}
SellerText == {"SellerNr", "SellerName"}
MSG01SellerText ==
    {"SellerNr", "SellerName", "NameCont", "Street", "City", "State",
     "Postcode", "Country"}
SellerDetailsText == {"BusinessProduct", "InvCurrency1", "ChargeBackCurrency"}
SellerDetailsNumber ==
    {"NetPmtTerms", "Discount1Days", "Discount2Days", "GracePeriod",
     "ChargeBackPerc", "ChargeBackAmt", "ExpTotSellerTurnover", "ExpNrBuyers",
     "ExpNrInvoices", "ExpNrCreditNotes", "ExpTurnover", "ExpOtherTurnover",
     "OtherFactors", "ServiceRequired"}
MSG02BuyerText ==
    {"BuyerNr", "BuyerName", "Street", "City", "State", "Postcode", "Country"}
MSG02BuyerNumber == {"DirectContact"}
PrelCreditAssessDetailsText == {"Currency"}
PrelCreditAssessDetailsNumber ==
    {"AmtCreditAssessReq", "NetPmtTerms", "Discount1Days", "Discount2Days"}
MSG05BuyerText ==
    {"BuyerNr", "BuyerName", "Street", "City", "Postcode", "Country", "Telephone"}
MSG05BuyerNumber == {"BuyerCompanyRegNr", "DirectContact"}
CreditCoverDetailsText == {"Currency"}
CreditCoverDetailsNumber ==
    {"Request", "NewCreditCoverAmt", "OwnRiskAmt", "OwnRiskPerc", "NetPmtTerms",
     "Discount1Days", "Discount1Perc", "Discount2Days", "Discount2Perc", "OrderNr"}
MSG07BuyerText == {"BuyerNr", "BuyerName"}
CurrentCreditCoverDetailsText == {"Currency"}
CurrentCreditCoverDetailsNumber == {"CurrentCreditCoverAmt"}
NewCreditCoverDetailsText == {"ValidFrom"}
NewCreditCoverDetailsNumber == {"Request", "NewCreditCoverAmt", "LongCreditPeriodDays"}

----------------------------------------------------------------------------
(* The message classes.  An XML string is modelled by what DOMParser makes *)
(* of it: whether it is well-formed, the name of its root element and the *)
(* root's children.                                                        *)

ParseError == "Failed to parse XML string."
RootNotFound(kind) ==
    "Invalid " \o kind \o " XML structure: Root <" \o kind \o "> element not found."
ElementNotFound(kind, tag) ==
    "Invalid " \o kind \o " XML structure: <" \o tag \o "> element not found."
MissingRequired(kind) == "Missing required elements in " \o kind \o " XML."

\* new MSG01(data)
MSG01(data) ==
    [type |-> "MSG01",
     timestamp |-> data.MsgInfo.DateTime,
     senderId |-> data.MsgInfo.SenderCode,
     payload |-> data,
     msgInfo |-> data.MsgInfo,
     ef |-> data.EF,
     _if |-> data["IF"],
     msgDate |-> data.MsgDate,
     msgFunction |-> data.MsgFunction,
     factAgreemSigned |-> data.FactAgreemSigned,
     seller |-> data.Seller,
     sellerDetails |-> data.SellerDetails,
     bankDetailsSeller |-> OrElse(data.BankDetailsSeller, EmptyObject),
     msgText |-> OrElse(data.MsgText, Str(""))]

MSG01_fromXMLString(xmlString) ==
    LET root == xmlString.c
        msgInfoElement == querySelector(root, "MsgInfo")
        efElement == querySelector(root, "EF")
        ifElement == querySelector(root, "IF")
        sellerElement == querySelector(root, "Seller")
        sellerDetailsElement == querySelector(root, "SellerDetails")
    IN  IF ~xmlString.wellFormed THEN Throw(ParseError)
        ELSE IF xmlString.name # "MSG01" THEN Throw(RootNotFound("MSG01"))
        ELSE IF msgInfoElement = NoElem THEN Throw(ElementNotFound("MSG01", "MsgInfo"))
        ELSE IF efElement = NoElem THEN Throw(ElementNotFound("MSG01", "EF"))
        ELSE IF ifElement = NoElem THEN Throw(ElementNotFound("MSG01", "IF"))
        ELSE IF sellerElement = NoElem THEN Throw(ElementNotFound("MSG01", "Seller"))
        ELSE IF sellerDetailsElement = NoElem
             THEN Throw(ElementNotFound("MSG01", "SellerDetails"))
        ELSE Return(MSG01(
            [MsgInfo |-> Extract(msgInfoElement, MsgInfoText, MsgInfoNumber),
             EF |-> Extract(efElement, FactorText, {}),
             MsgDate |-> getElementText(root, "MsgDate"),
             MsgFunction |-> getElementNumber(root, "MsgFunction"),
             FactAgreemSigned |-> getElementText(root, "FactAgreemSigned"),
             Seller |-> Extract(sellerElement, MSG01SellerText, {}),
             SellerDetails |->
                 Extract(sellerDetailsElement, SellerDetailsText, SellerDetailsNumber),
             BankDetailsSeller |->
                 IF querySelector(root, "BankDetailsSeller") # NoElem
                 THEN EmptyObject ELSE Null,
             MsgText |-> getElementText(root, "MsgText")]
            @@ ("IF" :> Extract(ifElement, FactorText, {}))))

MSG02WithoutIF(data) ==
    [type |-> "MSG02",
     timestamp |-> data.MsgInfo.DateTime,
     senderId |-> data.MsgInfo.SenderCode,
     payload |-> data,
     msgInfo |-> data.MsgInfo,
     ef |-> data.EF,
     _if |-> Null,
     requestDate |-> data.RequestDate,
     requestNr |-> data.RequestNr,
     msgFunction |-> data.MsgFunction,
     seller |-> data.Seller,
     buyer |-> data.Buyer,
     bankDetailsBuyer |-> OrElse(data.BankDetailsBuyer, EmptyObject),
     prelCreditAssessDetails |-> data.PrelCreditAssessDetails,
     msgText |-> OrElse(data.MsgText, Str(""))]

\* new MSG02(data)
MSG02(data) ==
    [type |-> "MSG02",
     timestamp |-> data.MsgInfo.DateTime,
     senderId |-> data.MsgInfo.SenderCode,
     payload |-> data,
     msgInfo |-> data.MsgInfo,
     ef |-> data.EF,
     _if |-> data["IF"],
     requestDate |-> data.RequestDate,
     requestNr |-> data.RequestNr,
     msgFunction |-> data.MsgFunction,
     seller |-> data.Seller,
     buyer |-> data.Buyer,
     bankDetailsBuyer |-> OrElse(data.BankDetailsBuyer, EmptyObject),
     prelCreditAssessDetails |-> data.PrelCreditAssessDetails,
     msgText |-> OrElse(data.MsgText, Str(""))]

MSG02_fromXMLString(xmlString) ==
    LET root == xmlString.c
        msgInfoElement == querySelector(root, "MsgInfo")
        efElement == querySelector(root, "EF")
        ifElement == querySelector(root, "IF")
        sellerElement == querySelector(root, "Seller")
        buyerElement == querySelector(root, "Buyer")
        prelCreditAssessDetailsElement == querySelector(root, "PrelCreditAssessDetails")
    IN  IF ~xmlString.wellFormed THEN Throw(ParseError)
        ELSE IF xmlString.name # "MSG02" THEN Throw(RootNotFound("MSG02"))
        ELSE IF msgInfoElement = NoElem THEN Throw(ElementNotFound("MSG02", "MsgInfo"))
        ELSE IF efElement = NoElem THEN Throw(ElementNotFound("MSG02", "EF"))
        ELSE IF ifElement = NoElem THEN Throw(ElementNotFound("MSG02", "IF"))
        ELSE IF sellerElement = NoElem THEN Throw(ElementNotFound("MSG02", "Seller"))
        ELSE IF buyerElement = NoElem THEN Throw(ElementNotFound("MSG02", "Buyer"))
        ELSE IF prelCreditAssessDetailsElement = NoElem
             THEN Throw(ElementNotFound("MSG02", "PrelCreditAssessDetails"))
        ELSE Return(MSG02(
            [MsgInfo |-> Extract(msgInfoElement, MsgInfoText, MsgInfoNumber),
             EF |-> Extract(efElement, FactorText, {}),
             RequestDate |-> getElementText(root, "RequestDate"),
             RequestNr |-> getElementText(root, "RequestNr"),
             MsgFunction |-> getElementNumber(root, "MsgFunction"),
             Seller |-> Extract(sellerElement, SellerText, {}),
             Buyer |-> Extract(buyerElement, MSG02BuyerText, MSG02BuyerNumber),
             BankDetailsBuyer |->
                 IF querySelector(root, "BankDetailsBuyer") # NoElem
                 THEN EmptyObject ELSE Null,
             PrelCreditAssessDetails |->
                 Extract(prelCreditAssessDetailsElement, PrelCreditAssessDetailsText,
                         PrelCreditAssessDetailsNumber),
             MsgText |-> getElementText(root, "MsgText")]
            @@ ("IF" :> Extract(ifElement, FactorText, {}))))

\* new MSG05(data)
MSG05(data) ==
    [type |-> "MSG05",
     timestamp |-> data.MsgInfo.DateTime,
     senderId |-> data.MsgInfo.SenderCode,
     payload |-> data,
     msgInfo |-> data.MsgInfo,
     ef |-> data.EF,
     _if |-> data["IF"],
     requestDate |-> data.RequestDate,
     requestNr |-> data.RequestNr,
     msgFunction |-> data.MsgFunction,
     seller |-> data.Seller,
     buyer |-> data.Buyer,
     bankDetailsBuyer |-> OrElse(data.BankDetailsBuyer, EmptyObject),
     creditCoverDetails |-> data.CreditCoverDetails,
     msgText |-> OrElse(data.MsgText, Str(""))]

MSG05_fromXMLString(xmlString) ==
    LET root == xmlString.c
        msgInfoElement == querySelector(root, "MsgInfo")
        efElement == querySelector(root, "EF")
        ifElement == querySelector(root, "IF")
        sellerElement == querySelector(root, "Seller")
        buyerElement == querySelector(root, "Buyer")
        creditCoverDetailsElement == querySelector(root, "CreditCoverDetails")
    IN  IF ~xmlString.wellFormed THEN Throw(ParseError)
        ELSE IF xmlString.name # "MSG05" THEN Throw(RootNotFound("MSG05"))
        ELSE IF \/ msgInfoElement = NoElem \/ efElement = NoElem
                \/ ifElement = NoElem \/ sellerElement = NoElem
                \/ buyerElement = NoElem \/ creditCoverDetailsElement = NoElem
             THEN Throw(MissingRequired("MSG05"))
        ELSE Return(MSG05(
            [MsgInfo |-> Extract(msgInfoElement, MsgInfoText, MsgInfoNumber),
             EF |-> Extract(efElement, FactorText, {}),
             RequestDate |-> getElementText(root, "RequestDate"),
             RequestNr |-> getElementText(root, "RequestNr"),
             MsgFunction |-> getElementNumber(root, "MsgFunction"),
             Seller |-> Extract(sellerElement, SellerText, {}),
             Buyer |-> Extract(buyerElement, MSG05BuyerText, MSG05BuyerNumber),
             BankDetailsBuyer |->
                 IF querySelector(root, "BankDetailsBuyer") # NoElem
                 THEN EmptyObject ELSE Null,
             CreditCoverDetails |->
                 Extract(creditCoverDetailsElement, CreditCoverDetailsText,
                         CreditCoverDetailsNumber),
             MsgText |-> getElementText(root, "MsgText")]
            @@ ("IF" :> Extract(ifElement, FactorText, {}))))

\* new MSG07(data)
MSG07(data) ==
    [type |-> "MSG07",
     timestamp |-> data.MsgInfo.DateTime,
     senderId |-> data.MsgInfo.SenderCode,
     payload |-> data,
     msgInfo |-> data.MsgInfo,
     ef |-> data.EF,
     _if |-> data["IF"],
     requestDate |-> data.RequestDate,
     requestNr |-> data.RequestNr,
     msgFunction |-> data.MsgFunction,
     seller |-> data.Seller,
     buyer |-> data.Buyer,
     currentCreditCoverDetails |-> data.CurrentCreditCoverDetails,
     newCreditCoverDetails |-> data.NewCreditCoverDetails,
     ownRiskNewCreditCover |-> OrElse(data.OwnRiskNewCreditCover, EmptyObject),
     msgText |-> OrElse(data.MsgText, Str(""))]

MSG07_fromXMLString(xmlString) ==
    LET root == xmlString.c
        msgInfoElement == querySelector(root, "MsgInfo")
        efElement == querySelector(root, "EF")
        ifElement == querySelector(root, "IF")
        sellerElement == querySelector(root, "Seller")
        buyerElement == querySelector(root, "Buyer")
        currentCreditCoverDetailsElement ==
            querySelector(root, "CurrentCreditCoverDetails")
        newCreditCoverDetailsElement == querySelector(root, "NewCreditCoverDetails")
    IN  IF ~xmlString.wellFormed THEN Throw(ParseError)
        ELSE IF xmlString.name # "MSG07" THEN Throw(RootNotFound("MSG07"))
        ELSE IF \/ msgInfoElement = NoElem \/ efElement = NoElem
                \/ ifElement = NoElem \/ sellerElement = NoElem
                \/ buyerElement = NoElem
                \/ currentCreditCoverDetailsElement = NoElem
                \/ newCreditCoverDetailsElement = NoElem
             THEN Throw(MissingRequired("MSG07"))
        ELSE Return(MSG07(
            [MsgInfo |-> Extract(msgInfoElement, MsgInfoText, MsgInfoNumber),
             EF |-> Extract(efElement, FactorText, {}),
             RequestDate |-> getElementText(root, "RequestDate"),
             RequestNr |-> getElementText(root, "RequestNr"),
             MsgFunction |-> getElementNumber(root, "MsgFunction"),
             Seller |-> Extract(sellerElement, SellerText, {}),
             Buyer |-> Extract(buyerElement, MSG07BuyerText, {}),
             CurrentCreditCoverDetails |->
                 Extract(currentCreditCoverDetailsElement,
                         CurrentCreditCoverDetailsText, CurrentCreditCoverDetailsNumber),
             NewCreditCoverDetails |->
                 Extract(newCreditCoverDetailsElement, NewCreditCoverDetailsText,
                         NewCreditCoverDetailsNumber),
             OwnRiskNewCreditCover |->
                 IF querySelector(root, "OwnRiskNewCreditCover") # NoElem
                 THEN EmptyObject ELSE Null,
             MsgText |-> getElementText(root, "MsgText")]
            @@ ("IF" :> Extract(ifElement, FactorText, {}))))

\* the decoder of each message class
fromXMLString(kind, xmlString) ==
    CASE kind = "MSG01" -> MSG01_fromXMLString(xmlString)
      [] kind = "MSG02" -> MSG02_fromXMLString(xmlString)
      [] kind = "MSG05" -> MSG05_fromXMLString(xmlString)
      [] kind = "MSG07" -> MSG07_fromXMLString(xmlString)

----------------------------------------------------------------------------
(* Currency conversion and the credit-manager rules *)

\* parseFloat of a string: the longest prefix, after leading white space,
\* that is a decimal literal; NaN when there is none.
ParseFloatString(s) ==
    LET t == TrimStart(s)
        good == {n \in 1..Len(t) : SignedLiteral(Prefix(t, n)) # NaN}
    IN  IF good = {} THEN NaN
        ELSE SignedLiteral(Prefix(t, CHOOSE n \in good : \A m \in good : m <= n))

\* parseFloat(v): ToString(v) is parsed; the string of a finite number
\* parses back to that number, and "NaN", "null", "undefined" parse to NaN.
parseFloat(v) ==
    IF IsNumber(v) THEN v
    ELSE IF IsString(v) THEN ParseFloatString(v.s)
    ELSE NaN

toFixed2Truncated(v) == ToString(v.num \div v.den)

\* Number.prototype.toFixed(2) of a non-negative number
toFixed2(v) ==
    LET n == (2 * 100 * v.num + v.den) \div (2 * v.den)
        cents == n % 100
    IN  ToString(n \div 100) \o "." \o (IF cents < 10 THEN "0" ELSE "") \o ToString(cents)

DivideInverted(a, b) == Frac(a.num * b.num, a.den * b.den)

\* a / b for numbers, b # 0
Divide(a, b) ==
    IF b.num > 0 THEN Frac(a.num * b.den, a.den * b.num)
    ELSE Frac(-(a.num * b.den), a.den * (-b.num))

LessThan(a, n) == a.num < n * a.den

\* a <= n for a number a and an integer n
LessOrEqual(a, n) == a.num <= n * a.den

\* the rate table of a successful fetch: data.rates
Rates(table) == [t |-> "rates", table |-> table]

convertToUSDUnconverted(amount, currency, rates) ==
    LET numericAmount == parseFloat(amount)
        code == ToUpperCase(currency.s)
        rate == IF code \in DOMAIN rates.table THEN rates.table[code] ELSE Undefined
    IN  IF amount \in {Null, Undefined, Str("")} THEN Str(" ")
        ELSE IF currency \in {Null, Undefined, Str("")} THEN Str("N/A")
        ELSE IF numericAmount = NaN THEN Str("Invalid Amount")
        ELSE IF ~Truthy(rates) THEN Str("Failed to fetch rates")
        ELSE IF code = "USD" THEN amount
        ELSE IF ~Truthy(rate) THEN numericAmount
        ELSE Divide(numericAmount, rate)

convertToUSD(amount, currency, rates) ==
    LET numericAmount == parseFloat(amount)
        code == ToUpperCase(currency.s)
        rate == IF code \in DOMAIN rates.table THEN rates.table[code] ELSE Undefined
    IN  IF amount \in {Null, Undefined, Str("")} THEN Str(" ")
        ELSE IF currency \in {Null, Undefined, Str("")} THEN Str("N/A")
        ELSE IF numericAmount = NaN THEN Str("Invalid Amount")
        ELSE IF ~Truthy(rates) THEN Str("Failed to fetch rates")
        ELSE IF code = "USD" THEN amount
        ELSE IF ~Truthy(rate)
             THEN Str(toFixed2(numericAmount) \o " " \o currency.s \o " (No Rate)")
        ELSE Divide(numericAmount, rate)

TypeError == "TypeError"
RangeError == "RangeError"

treyCountryCodes == {"AM", "EG", "GR", "IN", "MT", "RO", "TW", "TR", "VN"}
treySpecialCodes == {"SG", "JP", "US"}
CreditLineLimit == 500000

NameIncludesWholeName(factorName, part) ==
    IF IsString(factorName) THEN Return(factorName.s = part) ELSE Throw(TypeError)

\* factorName.includes(part): a TypeError when factorName is null
NameIncludes(factorName, part) ==
    IF IsString(factorName) THEN Return(Includes(factorName.s, part)) ELSE Throw(TypeError)

getCreditManager(countryCode, creditLine, factorName) ==
    LET numericCreditLine == parseFloat(creditLine)
        mogli == NameIncludes(factorName, "Mogli")
        mitsubishi == NameIncludes(factorName, "Mitsubishi")
        sumitomo == NameIncludes(factorName, "Sumitomo Mitsui")
        scb == NameIncludes(factorName, "Standard Chartered Bank New York")
    IN  IF numericCreditLine = NaN THEN Return("N/A")
        ELSE IF LessOrEqual(numericCreditLine, CreditLineLimit) THEN Return("lux")
        ELSE IF countryCode \in treyCountryCodes THEN Return("trey")
        ELSE IF countryCode \notin treySpecialCodes THEN Return("bost")
        ELSE IF countryCode = "SG"
             THEN IF mogli.threw THEN mogli
                  ELSE Return(IF mogli.value THEN "trey" ELSE "bost")
        ELSE IF countryCode = "JP"
             THEN IF mitsubishi.threw THEN mitsubishi
                  ELSE IF mitsubishi.value THEN Return("trey")
                  ELSE Return(IF sumitomo.value THEN "trey" ELSE "bost")
        ELSE IF scb.threw THEN scb
             ELSE Return(IF scb.value THEN "trey" ELSE "bost")

----------------------------------------------------------------------------
(* The record store and the join *)



MapGet(map, key) == IF key \in DOMAIN map THEN map[key] ELSE Undefined

MapSetKeepsFirst(map, key, value) ==
    IF key \in DOMAIN map THEN map
    ELSE [k \in DOMAIN map \cup {key} |-> IF k = key THEN value ELSE map[k]]

\* Map.prototype.set
MapSet(map, key, value) ==
    [k \in DOMAIN map \cup {key} |-> IF k = key THEN value ELSE map[k]]

EmptyMap == [k \in {} |-> Null]

\* `${v}` of a string or null
TemplateString(v) ==
    CASE v = Null -> "null"
      [] v = Undefined -> "undefined"
      [] IsString(v) -> v.s

\* the key a MSG01 instance is stored under: `${SenderCode}_${SellerNr}`
storeKey(instance) ==
    TemplateString(instance.msgInfo.SenderCode) \o "_"
        \o TemplateString(instance.seller.SellerNr)

\* the key the join looks a transaction's MSG01 up with
lookupKey(msg) ==
    TemplateString(msg.msgInfo.SenderCode) \o "_" \o TemplateString(msg.seller.SellerNr)

\* obj.field, undefined when the object has no such property
Get(obj, field) == IF field \in DOMAIN obj THEN obj[field] ELSE Undefined

regionNamesOfCode(code) == Return(Str(code))

\* Intl.DisplayNames(['en'], {type: 'region'}).of(code): a RangeError unless
\* the code is two letters or three digits; the name of a known region, else
\* the code itself
regionNamesOf(code) ==
    LET upper == ToUpperCase(code)
    IN  IF ~ \/ Len(code) = 2 /\ \A i \in 1..2 : IsLetter(Char(code, i))
             \/ Len(code) = 3 /\ AllDigits(code)
        THEN Throw(RangeError)
        ELSE Return(Str(CASE upper = "TR" -> "Turkey"
                          [] upper = "US" -> "United States"
                          [] upper = "IN" -> "India"
                          [] upper = "SG" -> "Singapore"
                          [] upper = "JP" -> "Japan"
                          [] upper = "DE" -> "Germany"
                          [] OTHER -> upper))

KindFieldsOfCurrentCover(msg) ==
    CASE msg.type = "MSG02" ->
            [amountReq |-> msg.prelCreditAssessDetails.AmtCreditAssessReq,
             currency |-> msg.prelCreditAssessDetails.Currency,
             term |-> msg.prelCreditAssessDetails.NetPmtTerms,
             contactAllowed |->
                 Str(IF msg.buyer.DirectContact = Num(1) THEN "Yes" ELSE "No")]
      [] msg.type = "MSG05" ->
            [amountReq |-> msg.creditCoverDetails.NewCreditCoverAmt,
             currency |-> msg.creditCoverDetails.Currency,
             term |-> msg.creditCoverDetails.NetPmtTerms,
             contactAllowed |->
                 Str(IF msg.buyer.DirectContact = Num(1) THEN "Yes" ELSE "No")]
      [] msg.type = "MSG07" ->
            [amountReq |-> msg.currentCreditCoverDetails.CurrentCreditCoverAmt,
             currency |-> msg.currentCreditCoverDetails.Currency,
             term |-> msg.newCreditCoverDetails.LongCreditPeriodDays,
             contactAllowed |-> Str("No")]

\* the amount, currency and term of a transaction, by message type
KindFields(msg) ==
    CASE msg.type = "MSG02" ->
            [amountReq |-> msg.prelCreditAssessDetails.AmtCreditAssessReq,
             currency |-> msg.prelCreditAssessDetails.Currency,
             term |-> msg.prelCreditAssessDetails.NetPmtTerms,
             contactAllowed |->
                 Str(IF msg.buyer.DirectContact = Num(1) THEN "Yes" ELSE "No")]
      [] msg.type = "MSG05" ->
            [amountReq |-> msg.creditCoverDetails.NewCreditCoverAmt,
             currency |-> msg.creditCoverDetails.Currency,
             term |-> msg.creditCoverDetails.NetPmtTerms,
             contactAllowed |->
                 Str(IF msg.buyer.DirectContact = Num(1) THEN "Yes" ELSE "No")]
      [] msg.type = "MSG07" ->
            [amountReq |-> msg.newCreditCoverDetails.NewCreditCoverAmt,
             currency |-> msg.currentCreditCoverDetails.Currency,
             term |-> msg.newCreditCoverDetails.LongCreditPeriodDays,
             contactAllowed |-> Str("No")]

\* the body of the forEach of generateCombinedDisplayData for one message:
\* the row pushed, or the error raised
RowOf(msg, msg01s, rates) ==
    LET matchedMsg01 == MapGet(msg01s, lookupKey(msg))
        kf == KindFields(msg)
        factorCode == msg.ef.FactorCode
        exportFactorCodeCharacters == Prefix(factorCode.s, 2)
        region == IF exportFactorCodeCharacters # ""
                  THEN regionNamesOf(exportFactorCodeCharacters)
                  ELSE Return(Str(""))
        partnerName == msg.ef.FactorName
        creditAmountUSDformat == convertToUSD(kf.amountReq, kf.currency, rates)
        manager == getCreditManager(exportFactorCodeCharacters, creditAmountUSDformat,
                                    partnerName)
    IN  IF ~IsString(factorCode) THEN Throw(TypeError)
        ELSE IF region.threw THEN region
        ELSE IF manager.threw THEN manager
        ELSE Return(
            [requestDate |-> OrElse(msg.requestDate, Str("")),
             dateReceived |->
                 IF Truthy(msg.msgInfo.DateTime)
                 THEN Str(Prefix(msg.msgInfo.DateTime.s, 10)) ELSE Str(""),
             reminder |-> Str("No"),
             newAcctNameAddressChange |-> Str("No"),
             cancellation |-> Str("No"),
             buyerName |-> msg.buyer.BuyerName,
             buyerCountry |-> OrElse(Get(msg.buyer, "Country"), Str("")),
             sellerName |-> msg.seller.SellerName,
             sellerCountry |-> region.value,
             partnerName |-> partnerName,
             partnerCountry |-> region.value,
             messageType |-> Str(Char(msg.type, Len(msg.type))),
             amountReq |-> kf.amountReq,
             currency |-> kf.currency,
             term |-> kf.term,
             contactAllowed |-> kf.contactAllowed,
             msgFunctionCode |-> Str(""),
             amtApproved |-> Str(""),
             msg3ExpirationDate |-> Str(""),
             insurance |-> Str(""),
             responseDate |-> Str(""),
             ofacDate |-> Str(""),
             rate |-> Str(""),
             incomingComments |-> OrElse(msg.msgText, Str("")),
             creditComments |-> Str(""),
             aeComments |-> Str(""),
             daysToRespond |-> Str(""),
             creditManager |-> Str(manager.value),
             aeCso |-> Str(""),
             industryProduct |->
                 IF matchedMsg01 # Undefined
                 THEN matchedMsg01.sellerDetails.BusinessProduct ELSE Str(""),
             clientCode |-> factorCode,
             amountReqUSD |-> Str("")])

\* new Date(text) as a number: the day count of an ISO date YYYY-MM-DD, NaN
\* (Invalid Date) for the empty text and for text that is no date
DateValue(text) ==
    LET y == DigitsValue(SubSeq(text, 1, 4))
        m == DigitsValue(SubSeq(text, 6, 7))
        d == DigitsValue(SubSeq(text, 9, 10))
        leap == y % 4 = 0 /\ (y % 100 # 0 \/ y % 400 = 0)
        daysIn == IF m = 2 THEN (IF leap THEN 29 ELSE 28)
                  ELSE IF m \in {4, 6, 9, 11} THEN 30 ELSE 31
    IN  IF /\ Len(text) = 10 /\ Char(text, 5) = "-" /\ Char(text, 8) = "-"
           /\ AllDigits(SubSeq(text, 1, 4)) /\ AllDigits(SubSeq(text, 6, 7))
           /\ AllDigits(SubSeq(text, 9, 10))
           /\ m \in 1..12 /\ d \in 1..daysIn
        THEN Num((y * 12 + m - 1) * 31 + d - 1)
        ELSE NaN

\* the comparator of the sort, as Array.prototype.sort reads it: the sign of
\* new Date(a.dateReceived) - new Date(b.dateReceived), a NaN result read as 0
SortCompare(a, b) ==
    LET x == DateValue(a.dateReceived.s)
        y == DateValue(b.dateReceived.s)
    IN  IF x = NaN \/ y = NaN THEN 0
        ELSE IF x.num < y.num THEN -1
        ELSE IF x.num > y.num THEN 1 ELSE 0

IndexPermutations(n) == {p \in [1..n -> 1..n] : \A i, j \in 1..n : p[i] = p[j] => i = j}

\* the orders in which combinedData.sort(...) may leave the rows: the stable
\* sorted order when the comparator orders the rows consistently; otherwise
\* the order is implementation-defined (ECMAScript), so any order.  The
\* comparator is inconsistent exactly when some row has no valid date (it
\* compares equal to every row) and two rows compare unequal.
SortOutcomes(rows) ==
    LET n == Len(rows)
        consistent ==
            \/ \A i \in 1..n : DateValue(rows[i].dateReceived.s) # NaN
            \/ \A i, j \in 1..n : SortCompare(rows[i], rows[j]) = 0
        before(j, i) ==
            \/ SortCompare(rows[j], rows[i]) < 0
            \/ SortCompare(rows[j], rows[i]) = 0 /\ j < i
        rank(i) == Cardinality({j \in 1..n : before(j, i)}) + 1
    IN  IF consistent THEN {[k \in 1..n |-> rows[CHOOSE i \in 1..n : rank(i) = k]]}
        ELSE {[i \in 1..n |-> rows[p[i]]] : p \in IndexPermutations(n)}

\* node.outerHTML: the serialisation of a parsed element is well-formed
outerHTML(node) == [wellFormed |-> TRUE, name |-> node.name, c |-> node.c]

Store(m01, m02, m05, m07) ==
    [allMsg01s |-> m01, allMsg02s |-> m02, allMsg05s |-> m05, allMsg07s |-> m07]

----------------------------------------------------------------------------
(* The XML texts the model draws its inputs from. *)

Kinds == {"MSG01", "MSG02", "MSG05", "MSG07"}

SampleText(leaf) ==
    CASE leaf = "SenderCode" -> "TR01"
      [] leaf = "DateTime" -> "2024-03-02T10:15:00"
      [] leaf = "FactorCode" -> "TR01"
      [] leaf = "FactorName" -> "Anadolu Faktoring"
      [] leaf = "SellerNr" -> "S100"
      [] leaf = "SellerName" -> "Seller AS"
      [] leaf = "BuyerName" -> "Buyer GmbH"
      [] leaf = "Country" -> "DE"
      [] leaf = "Currency" -> "EUR"
      [] leaf = "BusinessProduct" -> "Textiles"
      [] leaf \in {"AmtCreditAssessReq", "NewCreditCoverAmt"} -> "600000"
      [] leaf = "DirectContact" -> "1"
      [] leaf = "CurrentCreditCoverAmt" -> "250000"
      [] leaf = "NetPmtTerms" -> "60"
      [] leaf = "LongCreditPeriodDays" -> "90"
      [] OTHER -> "30"

SampleBlock(leaves) == Block([leaf \in leaves |-> Leaf(SampleText(leaf))])

EmptyBlock == Block([leaf \in {} |-> NoElem])

CommonChildren ==
    [MsgInfo |-> SampleBlock(MsgInfoText \cup MsgInfoNumber),
     EF |-> SampleBlock(FactorText),
     MsgFunction |-> Leaf("1"),
     MsgText |-> Leaf("please expedite")]
    @@ ("IF" :> SampleBlock(FactorText))

RequestChildren ==
    [RequestDate |-> Leaf("2024-03-01"),
     RequestNr |-> Leaf("R-1"),
     Seller |-> SampleBlock(SellerText)]

SampleChildren(kind) ==
    CASE kind = "MSG01" ->
            CommonChildren @@
            [MsgDate |-> Leaf("2024-03-01"),
             FactAgreemSigned |-> Leaf("2023-12-24"),
             Seller |-> SampleBlock(MSG01SellerText),
             SellerDetails |-> SampleBlock(SellerDetailsText \cup SellerDetailsNumber),
             BankDetailsSeller |-> EmptyBlock]
      [] kind = "MSG02" ->
            CommonChildren @@ RequestChildren @@
            [Buyer |-> SampleBlock(MSG02BuyerText \cup MSG02BuyerNumber),
             BankDetailsBuyer |-> EmptyBlock,
             PrelCreditAssessDetails |->
                 SampleBlock(PrelCreditAssessDetailsText \cup PrelCreditAssessDetailsNumber)]
      [] kind = "MSG05" ->
            CommonChildren @@ RequestChildren @@
            [Buyer |-> SampleBlock(MSG05BuyerText \cup MSG05BuyerNumber),
             BankDetailsBuyer |-> EmptyBlock,
             CreditCoverDetails |->
                 SampleBlock(CreditCoverDetailsText \cup CreditCoverDetailsNumber)]
      [] kind = "MSG07" ->
            CommonChildren @@ RequestChildren @@
            [Buyer |-> SampleBlock(MSG07BuyerText),
             CurrentCreditCoverDetails |->
                 SampleBlock(CurrentCreditCoverDetailsText
                             \cup CurrentCreditCoverDetailsNumber),
             NewCreditCoverDetails |->
                 SampleBlock(NewCreditCoverDetailsText \cup NewCreditCoverDetailsNumber),
             OwnRiskNewCreditCover |-> EmptyBlock]

\* a well-formed, structurally complete fragment of the kind
SampleXml(kind) == [wellFormed |-> TRUE, name |-> kind, c |-> SampleChildren(kind)]

\* what a leaf element may be in the inputs: absent, or present with this text
LeafTexts == {"", " ", "abc", "12abc", "042", "12.5", "-7", "0"}
LeafVariants == {NoElem} \cup {Leaf(text) : text \in LeafTexts}

BlockTags(xml) == {tag \in DOMAIN xml.c : xml.c[tag].t = "block"}
LeafTags(xml) == {tag \in DOMAIN xml.c : xml.c[tag].t = "leaf"}

\* the sample with one child of the root removed, one leaf changed, every
\* optional item removed, or a syntax fault
XmlVariants(xml) ==
    {xml, [xml EXCEPT !.wellFormed = FALSE]}
    \cup {[xml EXCEPT !.c[tag] = NoElem] : tag \in DOMAIN xml.c}
    \cup {[xml EXCEPT !.c[tag] = el] : tag \in LeafTags(xml), el \in LeafVariants}
    \cup UNION {{[xml EXCEPT !.c[b].c[leaf] = el] :
                    leaf \in DOMAIN xml.c[b].c, el \in LeafVariants} :
                b \in BlockTags(xml)}

\* the optional sections and the optional free-text note
OptionalTags == {"BankDetailsSeller", "BankDetailsBuyer", "OwnRiskNewCreditCover", "MsgText"}

\* the sample without its optional sections and its free-text note
WithoutOptional(xml) ==
    [xml EXCEPT !.c = [tag \in DOMAIN xml.c \ OptionalTags |-> xml.c[tag]]]

\* the sample with nothing but its required blocks, each without any leaf
Bare(xml) ==
    [xml EXCEPT !.c = [tag \in BlockTags(xml) \ OptionalTags |-> EmptyBlock]]

DecodeInputs ==
    UNION {{[kind |-> kind, xmlString |-> xml] :
                xml \in XmlVariants(SampleXml(kind))
                         \cup {WithoutOptional(SampleXml(kind)), Bare(SampleXml(kind))}} :
           kind \in Kinds}
    \cup {[kind |-> k1, xmlString |-> SampleXml(k2)] : k1 \in Kinds, k2 \in Kinds}

----------------------------------------------------------------------------
(* Decoding one XML text: the specification of the decoders alone. *)

NotCalled == [t |-> "not called"]

PipelineIdle ==
    /\ uploadedFiles = <<>>
    /\ processButtonDisabled = TRUE
    /\ allMsg01s = [k \in {} |-> Null]
    /\ allMsg02s = <<>>
    /\ allMsg05s = <<>>
    /\ allMsg07s = <<>>
    /\ exchangeRates = Null
    /\ runs = <<>>
    /\ output = Null
    /\ hist = <<>>

DecodeInit ==
    /\ PipelineIdle
    /\ arg \in DecodeInputs
    /\ ret = NotCalled

Decode ==
    /\ ret = NotCalled
    /\ ret' = fromXMLString(arg.kind, arg.xmlString)
    /\ UNCHANGED <<arg, pipelineVars>>

DecodeNext == Decode

DecodeSpec == DecodeInit /\ [][DecodeNext]_vars

----------------------------------------------------------------------------
(* Claims about the decoders (DecodeSpec) *)

Decoded == ret # NotCalled

\* the XML text is well-formed and its root is the decoder's kind
WellFormedOfKind == arg.xmlString.wellFormed /\ arg.xmlString.name = arg.kind

C1_Required(kind) ==
    CASE kind = "MSG01" -> {"MsgInfo", "EF", "IF", "Seller", "SellerDetails"}
      [] kind = "MSG02" ->
            {"MsgInfo", "EF", "IF", "Seller", "Buyer", "PrelCreditAssessDetails"}
      [] kind = "MSG05" ->
            {"MsgInfo", "EF", "IF", "Seller", "Buyer", "CreditCoverDetails"}
      [] kind = "MSG07" ->
            {"MsgInfo", "EF", "IF", "Seller", "Buyer", "CurrentCreditCoverDetails",
             "NewCreditCoverDetails"}

C1_Missing == {b \in C1_Required(arg.kind) : arg.xmlString.c[b] = NoElem}

\* C1: decoding a well-formed fragment that lacks a required substructure
\* raises an error whose message names that substructure and the schema
\* kind, for each of the four decoders; no record is returned.
C1_MissingSectionNamesSubstructure ==
    (Decoded /\ WellFormedOfKind) =>
        \A b \in C1_Missing :
            /\ ret.threw
            /\ Includes(ret.error, b)
            /\ Includes(ret.error, arg.kind)

\* the numeric leaves of each decoder, as <<block, leaf>> ("" is the root)
C9_NumericLeaves(kind) ==
    {<<"", "MsgFunction">>} \cup {<<"MsgInfo", leaf>> : leaf \in MsgInfoNumber}
    \cup CASE kind = "MSG01" -> {<<"SellerDetails", leaf>> : leaf \in SellerDetailsNumber}
           [] kind = "MSG02" ->
                {<<"Buyer", leaf>> : leaf \in MSG02BuyerNumber}
                \cup {<<"PrelCreditAssessDetails", leaf>> :
                        leaf \in PrelCreditAssessDetailsNumber}
           [] kind = "MSG05" ->
                {<<"Buyer", leaf>> : leaf \in MSG05BuyerNumber}
                \cup {<<"CreditCoverDetails", leaf>> : leaf \in CreditCoverDetailsNumber}
           [] kind = "MSG07" ->
                {<<"CurrentCreditCoverDetails", leaf>> :
                    leaf \in CurrentCreditCoverDetailsNumber}
                \cup {<<"NewCreditCoverDetails", leaf>> :
                        leaf \in NewCreditCoverDetailsNumber}

C9_Element(xml, path) ==
    IF path[1] = "" THEN querySelector(xml.c, path[2])
    ELSE querySelector(xml.c[path[1]].c, path[2])

C9_Value(instance, path) ==
    IF path[1] = "" THEN instance.payload[path[2]]
    ELSE instance.payload[path[1]][path[2]]

\* what Number() makes of the texts the inputs use
C9_NumberOf(text) ==
    CASE text = " " -> Num(0)
      [] text = "0" -> Num(0)
      [] text = "1" -> Num(1)
      [] text = "30" -> Num(30)
      [] text = "60" -> Num(60)
      [] text = "90" -> Num(90)
      [] text = "250000" -> Num(250000)
      [] text = "042" -> Num(42)
      [] text = "-7" -> Num(-7)
      [] text = "12.5" -> Frac(25, 2)
      [] text = "600000" -> Num(600000)
      [] text \in {"abc", "12abc"} -> NaN

C9_Unparsable == {"abc", "12abc"}

C9_Complete == WellFormedOfKind /\ C1_Missing = {}

\* C9 (as amended): a numeric leaf decodes to null when its element is
\* absent or its text is empty, to NaN (not null) when the text is non-empty
\* and not a numeric literal, and to Number(text) otherwise, which is 0 for
\* white-space text; a structurally complete fragment never raises because
\* of a leaf value.
C9_NumericOrNullOrNaN ==
    (Decoded /\ C9_Complete) =>
        /\ ~ret.threw
        /\ \A path \in C9_NumericLeaves(arg.kind) :
              LET el == C9_Element(arg.xmlString, path)
                  v == C9_Value(ret.value, path)
              IN  IF el = NoElem \/ el.text = "" THEN v = Null
                  ELSE v = C9_NumberOf(el.text)

\* a numeric leaf with unparsable text has been decoded
C9_Witness ==
    /\ Decoded /\ C9_Complete /\ ~ret.threw
    /\ \E path \in C9_NumericLeaves(arg.kind) :
          LET el == C9_Element(arg.xmlString, path)
          IN  el # NoElem /\ el.text \in C9_Unparsable
              /\ C9_Value(ret.value, path) = NaN

\* C9 as stated: unparsable non-empty text decodes to null
C9_UnparsableIsNull ==
    (Decoded /\ C9_Complete) =>
        /\ ~ret.threw
        /\ \A path \in C9_NumericLeaves(arg.kind) :
              LET el == C9_Element(arg.xmlString, path)
                  v == C9_Value(ret.value, path)
              IN  IF el = NoElem \/ el.text = "" THEN v = Null
                  ELSE IF el.text \in C9_Unparsable THEN v = Null
                  ELSE v.t = "number"

\* the property of an instance that holds the optional section of its kind
C13_OptionalSection(kind) ==
    CASE kind = "MSG01" -> [tag |-> "BankDetailsSeller", property |-> "bankDetailsSeller"]
      [] kind \in {"MSG02", "MSG05"} ->
            [tag |-> "BankDetailsBuyer", property |-> "bankDetailsBuyer"]
      [] kind = "MSG07" ->
            [tag |-> "OwnRiskNewCreditCover", property |-> "ownRiskNewCreditCover"]

\* the leaves of the data object, as <<block, leaf>> ("" is the root)
C13_Leaves(kind, data) ==
    LET blocks == C1_Required(kind)
    IN  {<<"", leaf>> : leaf \in DOMAIN data \ (blocks \cup OptionalTags)}
        \cup UNION {{<<b, leaf>> : leaf \in DOMAIN data[b]} : b \in blocks}

C13_Absent(xml, path) == C9_Element(xml, path) = NoElem

\* C13: a structurally complete fragment decodes successfully whatever
\* optional items are absent, all of them included: an absent optional
\* section is an empty container in the record, an absent free-text note the
\* empty string, and an absent leaf is null.
C13_OptionalAbsent ==
    (Decoded /\ C9_Complete) =>
        /\ ~ret.threw
        /\ LET xml == arg.xmlString
               section == C13_OptionalSection(arg.kind)
           IN  /\ querySelector(xml.c, section.tag) = NoElem
                      => ret.value[section.property] = EmptyObject
               /\ querySelector(xml.c, "MsgText") = NoElem
                      => ret.value.msgText = Str("")
               /\ \A path \in C13_Leaves(arg.kind, ret.value.payload) :
                      C13_Absent(xml, path) => C9_Value(ret.value, path) = Null

\* a fragment with nothing but its required blocks, each without any leaf,
\* has been decoded
C13_Witness ==
    /\ Decoded
    /\ arg.xmlString = Bare(SampleXml(arg.kind))
    /\ ~ret.threw
    /\ ret.value.msgText = Str("")
    /\ C9_Value(ret.value, <<"MsgInfo", "DateTime">>) = Null

----------------------------------------------------------------------------
(* The message nodes the store and join specifications draw from. *)

SampleNode(kind) == [name |-> kind, c |-> SampleChildren(kind)]

WithLeaf(node, block, leaf, el) == [node EXCEPT !.c[block].c[leaf] = el]

SampleNodes ==
    LET at(node, dateTime) == WithLeaf(node, "MsgInfo", "DateTime", dateTime)
        m01 == SampleNode("MSG01")
        m02 == SampleNode("MSG02")
        m05 == SampleNode("MSG05")
        m07 == SampleNode("MSG07")
    IN  [ref |-> m01,
         refSteel |-> WithLeaf(m01, "SellerDetails", "BusinessProduct", Leaf("Steel")),
         refOther |-> WithLeaf(m01, "Seller", "SellerNr", Leaf("S200")),
         refNoSeller |-> [m01 EXCEPT !.c.Seller = NoElem],
         refNullText |->
             WithLeaf(WithLeaf(m01, "Seller", "SellerNr", Leaf("null")),
                      "SellerDetails", "BusinessProduct", Leaf("Glass")),
         a02Mar |-> m02,
         a02Jan |-> at(m02, Leaf("2024-01-15T08:00:00")),
         a02NoDate |-> at(m02, NoElem),
         a02NoBuyer |-> [m02 EXCEPT !.c.Buyer = NoElem],
         a02Gold |-> WithLeaf(m02, "PrelCreditAssessDetails", "Currency", Leaf("XAU")),
         c05Mar |-> m05,
         c05NoCover |-> [m05 EXCEPT !.c.CreditCoverDetails = NoElem],
         c05EmptyCode |-> WithLeaf(m05, "EF", "FactorCode", Leaf("")),
         c05NoFactorCode |->
             WithLeaf(at(m05, Leaf("2024-02-10T09:30:00")), "EF", "FactorCode", NoElem),
         u07Feb |-> at(m07, Leaf("2024-02-10T12:00:00")),
         u07NoNewCover |-> [m07 EXCEPT !.c.NewCreditCoverDetails = NoElem],
         u07NoSellerNr |-> WithLeaf(m07, "Seller", "SellerNr", NoElem),
         u07BadRegion |->
             WithLeaf(at(m07, Leaf("2024-01-15T08:00:00")), "EF", "FactorCode", Leaf("X1")),
         u07NoName |->
             WithLeaf(WithLeaf(WithLeaf(m07, "EF", "FactorCode", Leaf("US09")),
                               "EF", "FactorName", NoElem),
                      "CurrentCreditCoverDetails", "Currency", Leaf("USD"))]

Range(f) == {f[x] : x \in DOMAIN f}

StoreNodes == Range(SampleNodes)

\* a selected file is modelled by the XML document its bytes decode to: the
\* elements under its root, in document order, and the position of the
\* element a syntax fault is in (0: none)
Document(syntaxError, nodes) == [syntaxError |-> syntaxError, nodes |-> nodes]

DocumentsOf(n) ==
    LET other == [name |-> "MSG03", c |-> n.a02Mar.c]
    IN  [a |-> Document(0, <<n.ref, n.a02NoBuyer, other, n.a02Mar>>),
         b |-> Document(3, <<n.refSteel, n.a02Jan, n.c05Mar, n.u07Feb>>)]

\* the files offered for selection, by name, and what their bytes decode to
Content == DocumentsOf(SampleNodes)

Files == {"a", "b"}

\* what a parser that keeps the nodes before a syntax fault holds of the
\* element the fault is in: the fault sits at the start of that element, so
\* none of its sections was parsed
CutNode(kind) == [name |-> kind, c |-> [tag \in {} |-> NoElem]]

Nodes == StoreNodes \cup {CutNode(kind) : kind \in Kinds}

\* MSGxx.fromXMLString(node.outerHTML) of every node the model draws,
\* evaluated once (joining the empty function makes TLC tabulate it)
Decodes == [node \in Nodes |-> fromXMLString(node.name, outerHTML(node))] @@ <<>>

InstanceOf(node) == Decodes[node].value

InstancesOf(decodes) ==
    [kind \in Kinds |->
        {decodes[node].value :
            node \in {n \in DOMAIN decodes : n.name = kind /\ ~decodes[n].threw}}]

\* the instances the sample nodes decode to, by kind
Instances == InstancesOf(Decodes)

SampleRates ==
    Rates([USD |-> Num(1), EUR |-> Frac(9, 10), TRY |-> Num(32), XAU |-> Num(0)])

RateTables == {Null, SampleRates}

\* the reference maps that storing the references refs can build
MapsOf(refs) ==
    {[k \in {storeKey(r) : r \in S} |-> CHOOSE r \in S : storeKey(r) = k] :
        S \in {T \in SUBSET refs : \A q, r \in T : storeKey(q) = storeKey(r) => q = r}}

RowsOf(instances) ==
    [msg \in instances["MSG02"] \cup instances["MSG05"] \cup instances["MSG07"] |->
        [msg01s \in MapsOf(instances["MSG01"]) |->
            [rates \in RateTables |-> RowOf(msg, msg01s, rates)] @@ <<>>] @@ <<>>] @@ <<>>

\* processMessage of every sample transaction, reference map and rate
\* table, evaluated once
Rows == RowsOf(Instances)

\* the rows pushed by the forEach of each collection, or the exception of
\* the first row that raises one; then the rows are sorted
SortedRows(built) ==
    LET failed == {i \in 1..Len(built) : built[i].threw}
    IN  IF failed # {}
        THEN {built[CHOOSE i \in failed : \A j \in failed : i <= j]}
        ELSE {Return(sorted) : sorted \in SortOutcomes([i \in 1..Len(built) |-> built[i].value])}

generateCombinedDisplayDataUpdatesFirst(msg01s, msg02s, msg05s, msg07s, rates) ==
    SortedRows([i \in 1..(Len(msg02s) + Len(msg05s) + Len(msg07s)) |->
                    Rows[(msg07s \o msg05s \o msg02s)[i]][msg01s][rates]])

generateCombinedDisplayData(msg01s, msg02s, msg05s, msg07s, rates) ==
    SortedRows([i \in 1..(Len(msg02s) + Len(msg05s) + Len(msg07s)) |->
                    Rows[(msg02s \o msg05s \o msg07s)[i]][msg01s][rates]])

\* the value console.log prints for each message, in iteration order
LoggedConversions(msg02s, msg05s, msg07s, rates) ==
    LET msgs == msg02s \o msg05s \o msg07s
    IN  [i \in 1..Len(msgs) |->
            LET kf == KindFields(msgs[i])
            IN  convertToUSD(kf.amountReq, kf.currency, rates)]

PutOrClear(store, nodeName, decoded) ==
    IF decoded.threw THEN Store(EmptyMap, <<>>, <<>>, <<>>)
    ELSE CASE nodeName = "MSG01" ->
                [store EXCEPT !.allMsg01s =
                    MapSet(@, storeKey(decoded.value), decoded.value)]
           [] nodeName = "MSG02" ->
                [store EXCEPT !.allMsg02s = Append(@, decoded.value)]
           [] nodeName = "MSG05" ->
                [store EXCEPT !.allMsg05s = Append(@, decoded.value)]
           [] nodeName = "MSG07" ->
                [store EXCEPT !.allMsg07s = Append(@, decoded.value)]

\* the body of msgNodes.forEach in reader.onload after the decode: the
\* store with the instance, unchanged when the decode threw
Put(store, nodeName, decoded) ==
    IF decoded.threw THEN store
    ELSE CASE nodeName = "MSG01" ->
                [store EXCEPT !.allMsg01s =
                    MapSet(@, storeKey(decoded.value), decoded.value)]
           [] nodeName = "MSG02" ->
                [store EXCEPT !.allMsg02s = Append(@, decoded.value)]
           [] nodeName = "MSG05" ->
                [store EXCEPT !.allMsg05s = Append(@, decoded.value)]
           [] nodeName = "MSG07" ->
                [store EXCEPT !.allMsg07s = Append(@, decoded.value)]

processNode(store, node) == Put(store, node.name, Decodes[node])

RECURSIVE processNodes(_, _)
processNodes(store, msgNodes) ==
    IF msgNodes = <<>> THEN store
    ELSE processNodes(processNode(store, Head(msgNodes)), Tail(msgNodes))

\* the most transaction records a drawn store holds (JoinSpec)
MaxRecords == 3

\* the most transaction records stored node by node (StoreSpec)
MaxStored == 3

SeqsUpTo(S, n) == UNION {[1..k -> S] : k \in 0..n}

Transactions == Len(allMsg02s) + Len(allMsg05s) + Len(allMsg07s)

----------------------------------------------------------------------------
(* Storing decoded nodes: the forEach body of reader.onload, node by node. *)

StoreInit ==
    /\ PipelineIdle
    /\ arg = NotCalled
    /\ ret = NotCalled

StoreNode(node) ==
    /\ Transactions < MaxStored
    /\ \E before \in {Store(allMsg01s, allMsg02s, allMsg05s, allMsg07s)} :
       \E after \in {processNode(before, node)} :
          /\ allMsg01s' = after.allMsg01s
          /\ allMsg02s' = after.allMsg02s
          /\ allMsg05s' = after.allMsg05s
          /\ allMsg07s' = after.allMsg07s
          /\ arg' = [node |-> node, before |-> before]
    /\ ret' = Decodes[node]
    /\ UNCHANGED <<uploadedFiles, processButtonDisabled, exchangeRates, runs,
                   output, hist>>

StoreNext == \E node \in StoreNodes : StoreNode(node)

StoreSpec == StoreInit /\ [][StoreNext]_vars

----------------------------------------------------------------------------
(* The join alone, on a store drawn from the decoded sample nodes. *)

JoinInit ==
    /\ uploadedFiles = <<>>
    /\ processButtonDisabled = TRUE
    /\ allMsg01s \in {EmptyMap}
          \cup {MapSet(EmptyMap, storeKey(r), r) : r \in Instances["MSG01"]}
    /\ \E n02, n05, n07 \in 0..MaxRecords :
          /\ n02 + n05 + n07 <= MaxRecords
          /\ allMsg02s \in [1..n02 -> Instances["MSG02"]]
          /\ allMsg05s \in [1..n05 -> Instances["MSG05"]]
          /\ allMsg07s \in [1..n07 -> Instances["MSG07"]]
    /\ exchangeRates \in RateTables
    /\ runs = <<>>
    /\ output = Null
    /\ hist = <<>>
    /\ arg = NotCalled
    /\ ret = NotCalled

Join ==
    /\ ret = NotCalled
    /\ ret' \in generateCombinedDisplayData(allMsg01s, allMsg02s, allMsg05s,
                                            allMsg07s, exchangeRates)
    /\ UNCHANGED <<arg, pipelineVars>>

JoinNext == Join

JoinSpec == JoinInit /\ [][JoinNext]_vars

----------------------------------------------------------------------------
(* convertToUSD alone, on amounts, currency codes and rate tables a caller *)
(* can pass.                                                               *)

\* a call of convertToUSD: what it returns, or the TypeError of
\* currency.toUpperCase() when the currency that reaches it is no string
convertToUSDCall(amount, currency, rates) ==
    IF /\ amount \notin {Null, Undefined, Str("")}
       /\ currency \notin {Null, Undefined, Str("")}
       /\ parseFloat(amount) # NaN
       /\ Truthy(rates)
       /\ ~IsString(currency)
    THEN Throw(TypeError)
    ELSE Return(convertToUSD(amount, currency, rates))

ConvertAmounts ==
    {Null, Undefined, NaN, Num(0), Num(600000), Frac(25, 2)}
    \cup {Str(text) : text \in {"", " ", "abc", "12abc", "100", "12.5", " 42 "}}

ConvertCurrencies ==
    {Null, Undefined, Num(840)}
    \cup {Str(text) : text \in {"", "USD", "usd", "EUR", "eur", "TRY", "XAU", "ZZZ"}}

ConvertRateTables == RateTables \cup {Rates(EmptyMap)}

ConvertInit ==
    /\ PipelineIdle
    /\ arg \in [amount : ConvertAmounts, currency : ConvertCurrencies,
                 rates : ConvertRateTables]
    /\ ret = NotCalled

Convert ==
    /\ ret = NotCalled
    /\ ret' = convertToUSDCall(arg.amount, arg.currency, arg.rates)
    /\ UNCHANGED <<arg, pipelineVars>>

ConvertNext == Convert

ConvertSpec == ConvertInit /\ [][ConvertNext]_vars

----------------------------------------------------------------------------
(* getCreditManager alone, on country codes, credit lines and partner      *)
(* names a caller can pass.                                                *)

ClassifyCodes == treyCountryCodes \cup treySpecialCodes \cup {"DE", "tr", ""}

ClassifyCreditLines ==
    {NaN, Num(0), Num(-5), Num(100000), Num(CreditLineLimit), Num(600000),
     Frac(100 * CreditLineLimit - 1, 100), Frac(100 * CreditLineLimit + 1, 100)}
    \cup {Str(text) : text \in {" ", "abc", "500000", "500000.01", "N/A",
                                "Failed to fetch rates", "Invalid Amount"}}

ClassifyNames ==
    {Null}
    \cup {Str(text) : text \in {"Mogli Factors", "Mitsubishi UFJ Factors",
                                "Sumitomo Mitsui Banking",
                                "Standard Chartered Bank New York", "Other Bank"}}

ClassifyInit ==
    /\ PipelineIdle
    /\ arg \in [countryCode : ClassifyCodes, creditLine : ClassifyCreditLines,
                 factorName : ClassifyNames]
    /\ ret = NotCalled

Classify ==
    /\ ret = NotCalled
    /\ ret' = getCreditManager(arg.countryCode, arg.creditLine, arg.factorName)
    /\ UNCHANGED <<arg, pipelineVars>>

ClassifyNext == Classify

ClassifySpec == ClassifyInit /\ [][ClassifyNext]_vars

----------------------------------------------------------------------------
(* The page: file selection, the click handler and its callbacks.          *)
(*                                                                         *)
(* A selected file is modelled by the XML document its bytes decode to:    *)
(* the elements under its root, in document order, and the position of a   *)
(* syntax fault (0: none).  Every click adds a run: the closure of one     *)
(* invocation of the click handler, with its own filesReadCount and        *)
(* totalFilesToRead.  hist records, for the claims, which run wrote each   *)
(* stored record and whether the store was written after a join read it.   *)

\* the most files of one selection
MaxFiles == 2

\* the most clicks on the process button
MaxRuns == 2

FileLists == SeqsUpTo(Files, MaxFiles)

\* xmlDoc.querySelectorAll('MSG01, MSG02, MSG05, MSG07') on the parsed
\* document.  For a document with a syntax fault DOMParser reports a
\* parsererror: the result holds no message node, or (in the browsers that
\* keep what was parsed before the fault) the nodes before the fault and the
\* element the fault is in; the fault sits at the start of that element, so
\* what was parsed of it holds no section.
msgNodes(doc) ==
    LET select(nodes) == SelectSeq(nodes, LAMBDA node : node.name \in Kinds)
    IN  IF doc.syntaxError = 0 THEN {select(doc.nodes)}
        ELSE {<<>>,
              select(Append(SubSeq(doc.nodes, 1, doc.syntaxError - 1),
                            CutNode(doc.nodes[doc.syntaxError].name)))}

EmptyOutput == [t |-> "empty"]

NoHistory ==
    [w01 |-> EmptyMap, w02 |-> <<>>, w05 |-> <<>>, w07 |-> <<>>,
     joined |-> FALSE, wroteAfterJoin |-> FALSE,
     renderedBy |-> 0, renderedFrom |-> {}]

\* (the button is enabled by the first selection of files: it starts disabled)
Init ==
    /\ uploadedFiles = <<>>
    /\ processButtonDisabled = TRUE
    /\ allMsg01s = EmptyMap
    /\ allMsg02s = <<>>
    /\ allMsg05s = <<>>
    /\ allMsg07s = <<>>
    /\ exchangeRates = Null
    /\ runs = <<>>
    /\ output = EmptyOutput
    /\ hist = NoHistory
    /\ arg = NotCalled
    /\ ret = NotCalled

\* fileInput 'change'
FileInputChange(files) ==
    /\ Len(runs) < MaxRuns \/ \E i \in 1..Len(runs) : runs[i].pc = "fetching"
    /\ uploadedFiles' = files
    /\ processButtonDisabled' = IF Len(files) > 0 THEN FALSE ELSE processButtonDisabled
    /\ UNCHANGED <<allMsg01s, allMsg02s, allMsg05s, allMsg07s, exchangeRates, runs,
                   output, hist, arg, ret>>

\* processButton 'click', up to the await of fetch
ProcessClick ==
    /\ ~processButtonDisabled
    /\ Len(runs) < MaxRuns
    /\ output' = EmptyOutput
    /\ allMsg01s' = EmptyMap
    /\ allMsg02s' = <<>>
    /\ allMsg05s' = <<>>
    /\ allMsg07s' = <<>>
    /\ runs' = Append(runs, [pc |-> "fetching", fetch |-> "pending", files |-> <<>>,
                             pending |-> {}, filesReadCount |-> 0,
                             totalFilesToRead |-> 0, rendered |-> 0])
    /\ hist' = [NoHistory EXCEPT !.renderedBy = hist.renderedBy,
                                 !.renderedFrom = hist.renderedFrom]
    /\ UNCHANGED <<uploadedFiles, processButtonDisabled, exchangeRates, arg, ret>>

FetchSettledNotAwaited(i, rates) ==
    /\ runs[i].pc = "fetching"
    /\ exchangeRates' = IF rates # Null THEN rates ELSE exchangeRates
    /\ runs' = [runs EXCEPT ![i] =
                  [@ EXCEPT !.pc = "reading",
                            !.files = uploadedFiles,
                            !.pending = 1..Len(uploadedFiles),
                            !.totalFilesToRead = Len(uploadedFiles)]]
    /\ UNCHANGED <<uploadedFiles, processButtonDisabled, allMsg01s, allMsg02s,
                   allMsg05s, allMsg07s, output, hist, arg, ret>>

\* the click handler after the await: the fetch has settled (rates: the table
\* of a successful response; Null: a network error, a response that is not
\* ok, or a result that is not 'success'), and a read of every selected file
\* is started
FetchSettled(i, rates) ==
    /\ runs[i].pc = "fetching"
    /\ exchangeRates' = IF rates # Null THEN rates ELSE exchangeRates
    /\ runs' = [runs EXCEPT ![i] =
                  [@ EXCEPT !.pc = "reading",
                            !.fetch = IF rates # Null THEN "success" ELSE "failure",
                            !.files = uploadedFiles,
                            !.pending = 1..Len(uploadedFiles),
                            !.totalFilesToRead = Len(uploadedFiles)]]
    /\ UNCHANGED <<uploadedFiles, processButtonDisabled, allMsg01s, allMsg02s,
                   allMsg05s, allMsg07s, output, hist, arg, ret>>

\* the records of hist after run i stored the nodes that took the store
\* from before to after
Written(h, i, decodes, nodes, before, after) ==
    LET keys == {storeKey(decodes[n].value) :
                    n \in {m \in Range(nodes) : m.name = "MSG01" /\ ~decodes[m].threw}}
        grown(w, old, new) == w \o [k \in 1..(Len(new) - Len(old)) |-> i]
    IN  [h EXCEPT
            !.w01 = [k \in DOMAIN after.allMsg01s |-> IF k \in keys THEN i ELSE h.w01[k]],
            !.w02 = grown(@, before.allMsg02s, after.allMsg02s),
            !.w05 = grown(@, before.allMsg05s, after.allMsg05s),
            !.w07 = grown(@, before.allMsg07s, after.allMsg07s),
            !.wroteAfterJoin = @ \/ (h.joined /\ after # before)]

\* the runs whose records the store holds
Writers(h) == Range(h.w01) \cup Range(h.w02) \cup Range(h.w05) \cup Range(h.w07)

\* reader.onload of file f of run i (displayRows: what the join returned or
\* threw; NotCalled while files of the run are still to be counted)
FileLoaded(i, f) ==
    /\ runs[i].pc = "reading"
    /\ f \in runs[i].pending
    /\ \E nodes \in msgNodes(Content[runs[i].files[f]]) :
       \E before \in {Store(allMsg01s, allMsg02s, allMsg05s, allMsg07s)} :
       \E after \in {processNodes(before, nodes)} :
       \E written \in {Written(hist, i, Decodes, nodes, before, after)} :
       \E displayRows \in
            (IF runs[i].filesReadCount + 1 = runs[i].totalFilesToRead
             THEN generateCombinedDisplayData(after.allMsg01s, after.allMsg02s,
                        after.allMsg05s, after.allMsg07s, exchangeRates)
             ELSE {NotCalled}) :
          /\ allMsg01s' = after.allMsg01s
          /\ allMsg02s' = after.allMsg02s
          /\ allMsg05s' = after.allMsg05s
          /\ allMsg07s' = after.allMsg07s
          /\ runs' = [runs EXCEPT ![i] =
                        [@ EXCEPT
                            !.pending = @ \ {f},
                            !.filesReadCount = @ + 1,
                            !.pc = IF displayRows = NotCalled THEN @
                                   ELSE IF displayRows.threw THEN "threw"
                                   ELSE "rendered",
                            !.rendered = IF displayRows = NotCalled THEN @
                                         ELSE IF displayRows.threw THEN @
                                         ELSE @ + 1]]
          /\ hist' = IF displayRows = NotCalled THEN written
                     ELSE IF displayRows.threw THEN [written EXCEPT !.joined = TRUE]
                     ELSE [written EXCEPT !.joined = TRUE,
                                          !.renderedBy = i,
                                          !.renderedFrom = Writers(written)]
          /\ output' = IF displayRows = NotCalled THEN output
                       ELSE IF displayRows.threw THEN output
                       ELSE [t |-> "table", rows |-> displayRows.value,
                             exchangeRates |-> exchangeRates]
    /\ UNCHANGED <<uploadedFiles, processButtonDisabled, exchangeRates, arg, ret>>

\* the read of file f of run i ends in an error: no handler is registered
\* for it, so nothing runs
FileReadFailed(i, f) ==
    /\ runs[i].pc = "reading"
    /\ f \in runs[i].pending
    /\ runs' = [runs EXCEPT ![i] = [@ EXCEPT !.pending = @ \ {f}]]
    /\ UNCHANGED <<uploadedFiles, processButtonDisabled, allMsg01s, allMsg02s,
                   allMsg05s, allMsg07s, exchangeRates, output, hist, arg, ret>>

Next ==
    \/ \E files \in FileLists : FileInputChange(files)
    \/ ProcessClick
    \/ \E i \in 1..Len(runs) : \E rates \in RateTables : FetchSettled(i, rates)
    \/ \E i \in 1..Len(runs) : \E f \in 1..MaxFiles : FileLoaded(i, f)
    \/ \E i \in 1..Len(runs) : \E f \in 1..MaxFiles : FileReadFailed(i, f)

Spec == Init /\ [][Next]_vars

----------------------------------------------------------------------------
(* Claims about the join (JoinSpec) and the store (StoreSpec) *)

Joined == ret # NotCalled

\* C5: generateCombinedDisplayData completes without raising and returns a
\* row sequence for every set of successfully decoded records in the store.
C5_JoinNeverRaises == Joined => ~ret.threw

\* the rows in store-iteration order, before the sort
C8_PreSort ==
    LET msgs == allMsg02s \o allMsg05s \o allMsg07s
    IN  [i \in 1..Len(msgs) |-> RowOf(msgs[i], allMsg01s, exchangeRates).value]

\* dateReceived as an ordinal: the empty text sorts first
C8_Key(row) ==
    IF row.dateReceived.s = "" THEN -1 ELSE DateValue(row.dateReceived.s).num

RECURSIVE C8_Insert(_, _)
C8_Insert(sorted, row) ==
    IF sorted = <<>> THEN <<row>>
    ELSE IF C8_Key(Head(sorted)) <= C8_Key(row)
         THEN <<Head(sorted)>> \o C8_Insert(Tail(sorted), row)
         ELSE <<row>> \o sorted

RECURSIVE C8_StableSort(_)
C8_StableSort(rows) ==
    IF rows = <<>> THEN <<>>
    ELSE C8_Insert(C8_StableSort(SubSeq(rows, 1, Len(rows) - 1)), rows[Len(rows)])

\* C8: the rows the join returns are sorted by dateReceived ascending, rows
\* with equal dateReceived in store-iteration order, also when a timestamp
\* is absent and dateReceived is empty.
C8_SortedStable ==
    (Joined /\ ~ret.threw) => ret.value = C8_StableSort(C8_PreSort)

Stored == ret # NotCalled /\ arg.node.name = "MSG01" /\ ~ret.threw

\* C10: right after a MSG01 record is stored, a lookup with the key of its
\* (SenderCode, SellerNr) returns exactly that record; a record stored under
\* a key already present replaces the earlier one whole, and no other entry
\* of the map is added or changed.
C10_ReferenceRoundTrip ==
    Stored =>
        LET before == arg.before.allMsg01s
            key == lookupKey(ret.value)
        IN  /\ MapGet(allMsg01s, key) = ret.value
            /\ DOMAIN allMsg01s = DOMAIN before \cup {key}
            /\ \A k \in DOMAIN before \ {key} : allMsg01s[k] = before[k]

\* a record has replaced a different record stored under its key
C10_Witness ==
    /\ Stored
    /\ lookupKey(ret.value) \in DOMAIN arg.before.allMsg01s
    /\ arg.before.allMsg01s[lookupKey(ret.value)] # ret.value
    /\ allMsg01s[lookupKey(ret.value)] = ret.value

\* C11: every row the join returns carries, in amountReqUSD, the result of
\* convertToUSD for that row's amount and currency under the rate table of
\* the batch: the converted number or the placeholder.
C11_RowCarriesConversion ==
    (Joined /\ ~ret.threw) =>
        \A i \in 1..Len(ret.value) :
            ret.value[i].amountReqUSD =
                convertToUSD(ret.value[i].amountReq, ret.value[i].currency,
                             exchangeRates)

\* the properties of an instance that hold the required blocks of its kind
C12_RequiredBlocks(kind) ==
    {"msgInfo", "ef", "_if", "seller"}
    \cup CASE kind = "MSG01" -> {"sellerDetails"}
           [] kind = "MSG02" -> {"buyer", "prelCreditAssessDetails"}
           [] kind = "MSG05" -> {"buyer", "creditCoverDetails"}
           [] kind = "MSG07" ->
                {"buyer", "currentCreditCoverDetails", "newCreditCoverDetails"}

C12_Complete(instance) ==
    \A block \in C12_RequiredBlocks(instance.type) :
        /\ block \in DOMAIN instance
        /\ instance[block] \notin {Null, Undefined}

C12_StoredRecords ==
    Range(allMsg01s) \cup Range(allMsg02s) \cup Range(allMsg05s) \cup Range(allMsg07s)

\* C12: a decoder either raises and returns nothing, so that nothing is
\* stored, or returns a record with every required block of its kind
\* present; every record in the store has all required blocks of its kind.
C12_AllOrNothing ==
    /\ ret # NotCalled =>
          IF ret.threw
          THEN /\ DOMAIN ret = {"threw", "error"}
               /\ Store(allMsg01s, allMsg02s, allMsg05s, allMsg07s) = arg.before
          ELSE /\ ret.value.type = arg.node.name
               /\ C12_Complete(ret.value)
    /\ \A record \in C12_StoredRecords : C12_Complete(record)

\* a decoder has raised on a fragment that lacks a required block, while a
\* reference record and transaction records of two kinds are stored
C12_Witness ==
    /\ ret # NotCalled
    /\ ret.threw
    /\ arg.node.c.MsgInfo # NoElem
    /\ allMsg01s # EmptyMap
    /\ allMsg05s # <<>>
    /\ allMsg07s # <<>>

\* the kind digit, buyer, seller and partner fields a record gives its row
C14_FieldsOfRecord(msg) ==
    [messageType |-> Str(Char(msg.type, Len(msg.type))),
     buyerName |-> msg.buyer.BuyerName,
     sellerName |-> msg.seller.SellerName,
     partnerName |-> msg.ef.FactorName,
     clientCode |-> msg.ef.FactorCode]

C14_FieldsOfRow(row) ==
    [messageType |-> row.messageType,
     buyerName |-> row.buyerName,
     sellerName |-> row.sellerName,
     partnerName |-> row.partnerName,
     clientCode |-> row.clientCode]

\* C14: the join returns exactly one row per transaction record of the
\* store: as many rows as there are MSG02, MSG05 and MSG07 records, and the
\* kind digit, buyer, seller and partner fields of the records are those of
\* the rows, each as often as it occurs among the records.
C14_OneRowPerRecord ==
    Joined =>
        LET msgs == allMsg02s \o allMsg05s \o allMsg07s
        IN  /\ ~ret.threw
            /\ Len(ret.value) = Len(msgs)
            /\ \A k \in 1..Len(msgs) :
                  Cardinality({i \in 1..Len(ret.value) :
                      C14_FieldsOfRow(ret.value[i]) = C14_FieldsOfRecord(msgs[k])})
                  = Cardinality({j \in 1..Len(msgs) :
                      C14_FieldsOfRecord(msgs[j]) = C14_FieldsOfRecord(msgs[k])})

\* what tells the rows of the sample records apart: kind digit and day
C15_Mark(messageType, dateTime) ==
    <<messageType, IF Truthy(dateTime) THEN Prefix(dateTime.s, 10) ELSE "">>

\* the marks of the stored records: assessment requests, then cover
\* requests, then cover updates, each sequence in its own order
C15_StoreOrder ==
    [i \in 1..Len(allMsg02s) |-> C15_Mark("2", allMsg02s[i].msgInfo.DateTime)]
    \o [i \in 1..Len(allMsg05s) |-> C15_Mark("5", allMsg05s[i].msgInfo.DateTime)]
    \o [i \in 1..Len(allMsg07s) |-> C15_Mark("7", allMsg07s[i].msgInfo.DateTime)]

\* the sort moves no row: no two rows compare unequal
C15_SortKeepsOrder(rows) ==
    \A i, j \in 1..Len(rows) : SortCompare(rows[i], rows[j]) = 0

C15_Outcomes ==
    generateCombinedDisplayData(allMsg01s, allMsg02s, allMsg05s, allMsg07s,
                                exchangeRates)

\* the join of the stored records iterates them in store order: where the
\* sort moves no row, the rows returned are in that order
C15_IterationOrder ==
    \A out \in C15_Outcomes :
        (~out.threw /\ C15_SortKeepsOrder(out.value)) =>
            [i \in 1..Len(out.value) |->
                <<out.value[i].messageType.s, out.value[i].dateReceived.s>>]
            = C15_StoreOrder

C15_Extends(old, new) ==
    \/ new = old
    \/ Len(new) = Len(old) + 1 /\ SubSeq(new, 1, Len(old)) = old

\* C15: the join iterates the concatenation of the MSG02, MSG05 and MSG07
\* sequences, in that order, and every step that is not a reset leaves each
\* sequence as it was or with one record added at its end.
C15_ConcatenationOfAppendOnly ==
    /\ []C15_IterationOrder
    /\ [][/\ C15_Extends(allMsg02s, allMsg02s')
          /\ C15_Extends(allMsg05s, allMsg05s')
          /\ C15_Extends(allMsg07s, allMsg07s')]_vars

\* two different assessment requests and a cover request are stored, and
\* their join returns three rows the sort has not moved
C15_Witness ==
    /\ Len(allMsg02s) = 2
    /\ allMsg02s[1] # allMsg02s[2]
    /\ Len(allMsg05s) = 1
    /\ \E out \in C15_Outcomes :
          ~out.threw /\ Len(out.value) = 3 /\ C15_SortKeepsOrder(out.value)

----------------------------------------------------------------------------
(* Claims about the page (Spec) *)

\* C2: the table a later invocation renders is built only from records
\* that invocation's own file reads stored: at its join the store holds no
\* record written by the reads of another invocation.
C2_OwnRecordsOnly ==
    hist.renderedBy > 1 => hist.renderedFrom \subseteq {hist.renderedBy}

\* C3: between the moment the join has read the store and the next reset no
\* decoder writes to the store.
C3_NoWriteAfterJoin == ~hist.wroteAfterJoin

\* C4: the table of an invocation whose rate fetch failed is enriched with
\* an absent (null) rate table, whatever earlier invocations fetched.
C4_FailedFetchNullRates ==
    \A i \in 1..Len(runs) :
        (/\ hist.renderedBy = i
         /\ output.t = "table"
         /\ runs[i].fetch = "failure"
         /\ \A j \in 1..Len(runs) : runs[j].fetch = "success" => j < i)
            => output.exchangeRates = Null

\* C6: every invocation renders its table: an invocation that has not
\* rendered yet is waiting for its fetch, or for reads whose completion
\* brings filesReadCount to totalFilesToRead.
C6_EveryRunCanRender ==
    \A i \in 1..Len(runs) :
        \/ runs[i].rendered = 1
        \/ runs[i].pc = "fetching"
        \/ /\ runs[i].pc = "reading"
           /\ runs[i].pending # {}
           /\ runs[i].filesReadCount + Cardinality(runs[i].pending)
                = runs[i].totalFilesToRead

\* C7: every well-formed, complete transaction fragment of a batch gives a
\* row, whatever fragments beside it fail to decode: the table of a single
\* invocation has as many rows as its files hold such fragments.
C7_EveryGoodFragmentGivesARow ==
    LET files == runs[1].files
        good == {<<f, k>> \in (1..Len(files)) \X (1..4) :
                    /\ k <= Len(Content[files[f]].nodes)
                    /\ k # Content[files[f]].syntaxError
                    /\ Content[files[f]].nodes[k].name \in {"MSG02", "MSG05", "MSG07"}
                    /\ ~Decodes[Content[files[f]].nodes[k]].threw}
    IN  (Len(runs) = 1 /\ runs[1].rendered = 1)
            => Len(output.rows) = Cardinality(good)

C16_Settled(run) == run.fetch \in {"success", "failure"}

\* the run has started a read of its files, or has joined
C16_Reading(run) ==
    \/ run.pc \in {"reading", "rendered", "threw"}
    \/ run.files # <<>> \/ run.pending # {}
    \/ run.filesReadCount > 0 \/ run.rendered > 0

\* the fetch of a run is pending exactly while the handler awaits it, and
\* has settled when the run reads files or joins
C16_SettledBeforeReading ==
    \A i \in 1..Len(runs) :
        /\ runs[i].pc = "fetching" <=> runs[i].fetch = "pending"
        /\ C16_Reading(runs[i]) => C16_Settled(runs[i])

\* C16: every invocation issues one rate fetch, which is pending from the
\* click until it settles as a success or a failure, and is never issued
\* again or settled again; no file of the invocation is read and no row
\* is built by it before its fetch has settled.
C16_FetchOnceBeforeReads ==
    /\ []C16_SettledBeforeReading
    /\ [][\A i \in 1..Len(runs) :
            C16_Settled(runs[i]) => runs'[i].fetch = runs[i].fetch]_vars

\* an invocation whose fetch failed has read two files and rendered, while
\* the fetch of a later invocation is pending
C16_Witness ==
    /\ Len(runs) = 2
    /\ runs[1].fetch = "failure"
    /\ runs[1].filesReadCount = 2
    /\ runs[1].rendered = 1
    /\ runs[2].fetch = "pending"

----------------------------------------------------------------------------
(* Claims about convertToUSD (ConvertSpec) and getCreditManager            *)
(* (ClassifySpec)                                                          *)

Converted == ret # NotCalled

C17_Absent == {Null, Undefined, Str("")}

\* the sample amounts that are numbers: number values and the texts that
\* are numeric literals
C17_Numeric(amount) ==
    \/ IsNumber(amount)
    \/ IsString(amount) /\ amount.s \in {"100", "12.5", " 42 "}

\* C17: convertToUSD returns the blank ' ' for an empty or absent amount,
\* whatever the currency and the rate table; otherwise 'N/A' for an empty
\* or absent currency; otherwise 'Invalid Amount' for an amount that is no
\* number; otherwise 'Failed to fetch rates' for an absent rate table; and
\* it raises for none of these inputs.
C17_UnavailableOutcomes ==
    Converted =>
        IF arg.amount \in C17_Absent THEN ret = Return(Str(" "))
        ELSE IF arg.currency \in C17_Absent THEN ret = Return(Str("N/A"))
        ELSE IF ~C17_Numeric(arg.amount) THEN ret = Return(Str("Invalid Amount"))
        ELSE IF arg.rates = Null THEN ret = Return(Str("Failed to fetch rates"))
        ELSE TRUE

\* the number a sample amount stands for
C18_ValueOf(amount) ==
    IF IsNumber(amount) THEN amount
    ELSE CASE amount.s = "100" -> Num(100)
           [] amount.s = "12.5" -> Frac(25, 2)
           [] amount.s = " 42 " -> Num(42)

\* the call has a numeric amount, a non-empty currency code and a rate table
C18_Convertible ==
    /\ C17_Numeric(arg.amount)
    /\ IsString(arg.currency) /\ arg.currency # Str("")
    /\ arg.rates # Null

\* the currency code is another code than USD and the table has it
C18_Listed ==
    /\ C18_Convertible
    /\ arg.currency # Str("USD")
    /\ arg.currency.s \in DOMAIN arg.rates.table

\* the quotient of a number and a positive rate
C18_Quotient(a, rate) == Frac(a.num * rate.den, a.den * rate.num)

\* a number divided by zero: an infinity, or NaN for zero
C18_ByZero(a) == IF a.num = 0 THEN NaN ELSE [t |-> "Infinity", negative |-> a.num < 0]

C18_PassThrough ==
    (C18_Convertible /\ arg.currency = Str("USD")) => ret = Return(arg.amount)

\* C18 (as amended): for a numeric amount, a non-empty currency code and a
\* present rate table, convertToUSD returns the amount as it was passed when
\* the code is USD, whether or not the table lists USD; when the code is
\* another code the table lists with a rate that is not 0 it returns the
\* amount divided by that rate; a code listed with the rate 0 gets the
\* '(No Rate)' placeholder.
C18_UsdOrDivided ==
    Converted =>
        /\ C18_PassThrough
        /\ C18_Listed =>
              LET rate == arg.rates.table[arg.currency.s]
              IN  IF rate # Num(0)
                  THEN ret = Return(C18_Quotient(C18_ValueOf(arg.amount), rate))
                  ELSE /\ ~ret.threw
                       /\ IsString(ret.value)
                       /\ Includes(ret.value.s, "(No Rate)")

\* an amount given as text has been divided by a rate that is no integer
C18_Witness ==
    /\ Converted
    /\ C18_Listed
    /\ arg.amount = Str("100")
    /\ arg.currency = Str("EUR")
    /\ ret = Return(Frac(1000, 9))

\* C18 as stated: the amount divided by rates[code] for every listed code
C18_DividedForEveryListedCode ==
    Converted =>
        /\ C18_PassThrough
        /\ C18_Listed =>
              LET rate == arg.rates.table[arg.currency.s]
              IN  IF rate # Num(0)
                  THEN ret = Return(C18_Quotient(C18_ValueOf(arg.amount), rate))
                  ELSE ret = Return(C18_ByZero(C18_ValueOf(arg.amount)))

\* the sample amounts, written with two decimals
C19_TwoDecimals(amount) ==
    CASE amount = Num(0) -> "0.00"
      [] amount = Num(600000) -> "600000.00"
      [] amount \in {Frac(25, 2), Str("12.5")} -> "12.50"
      [] amount = Str("100") -> "100.00"
      [] amount = Str(" 42 ") -> "42.00"

\* the currency code is not USD and the table has no rate for it, in
\* whatever case the code is written
C19_Unlisted ==
    /\ C18_Convertible
    /\ ToUpperCase(arg.currency.s) \notin DOMAIN arg.rates.table \cup {"USD"}

\* C19: for a numeric amount and a present rate table without a rate for
\* the currency code, which is not USD, convertToUSD does not raise and
\* returns the placeholder that gives the amount, the currency code as it
\* was passed, and '(No Rate)'.
C19_RateNotFound ==
    (Converted /\ C19_Unlisted) =>
        ret = Return(Str(C19_TwoDecimals(arg.amount) \o " " \o arg.currency.s
                         \o " (No Rate)"))

\* an amount with a fraction has met a table that does not list its code
C19_Witness ==
    /\ Converted
    /\ C19_Unlisted
    /\ arg.amount = Str("12.5")
    /\ arg.currency = Str("ZZZ")
    /\ arg.rates = SampleRates
    /\ ret = Return(Str("12.50 ZZZ (No Rate)"))

Classified == ret # NotCalled

\* the sample credit lines that are numbers: number values and the texts
\* that are numeric literals
C20_Numeric(creditLine) ==
    \/ IsNumber(creditLine)
    \/ IsString(creditLine) /\ creditLine.s \in {"500000", "500000.01"}

C20_ValueOf(creditLine) ==
    IF IsNumber(creditLine) THEN creditLine
    ELSE CASE creditLine.s = "500000" -> Num(500000)
           [] creditLine.s = "500000.01" -> Frac(50000001, 100)

\* C20: for every country code and every partner name, also an absent one,
\* getCreditManager returns "lux" for a numeric credit line of 500000 or
\* less, and does not return "lux" for a numeric credit line above 500000.
C20_ThresholdDominates ==
    (Classified /\ C20_Numeric(arg.creditLine)) =>
        LET v == C20_ValueOf(arg.creditLine)
        IN  IF v.num <= 500000 * v.den
            THEN ret = Return("lux")
            ELSE ret.threw \/ ret.value # "lux"

\* the boundary amount has been classified for a country whose rule reads
\* the partner name, with no partner name
C20_Witness ==
    /\ Classified
    /\ arg.creditLine = Num(500000)
    /\ arg.countryCode = "US"
    /\ arg.factorName = Null
    /\ ret = Return("lux")

\* the label the rules give a credit line above the threshold
C21_Label(countryCode, name) ==
    IF \/ countryCode \in {"AM", "EG", "GR", "IN", "MT", "RO", "TW", "TR", "VN"}
       \/ countryCode = "SG" /\ Includes(name, "Mogli")
       \/ countryCode = "JP" /\ Includes(name, "Mitsubishi")
       \/ countryCode = "JP" /\ Includes(name, "Sumitomo Mitsui")
       \/ countryCode = "US" /\ Includes(name, "Standard Chartered Bank New York")
    THEN "trey"
    ELSE "bost"

C21_AboveThreshold ==
    /\ C20_Numeric(arg.creditLine)
    /\ C20_ValueOf(arg.creditLine).num > 500000 * C20_ValueOf(arg.creditLine).den

C22_TotalOverLabels ==
    Classified =>
        /\ ~ret.threw
        /\ ret.value \in {"N/A", "lux", "trey", "bost"}

----------------------------------------------------------------------------
(* Claims about the rows of the join (JoinSpec) *)

\* the business product of the reference stored under the pair of the
\* record, the empty text when none is stored under it
C23_Product(msg) ==
    LET stored == {r \in Range(allMsg01s) :
                      /\ r.msgInfo.SenderCode = msg.msgInfo.SenderCode
                      /\ r.seller.SellerNr = msg.seller.SellerNr}
    IN  IF stored = {} THEN Str("")
        ELSE (CHOOSE r \in stored : TRUE).sellerDetails.BusinessProduct

C23_Records == Range(allMsg02s \o allMsg05s \o allMsg07s)

\* the records a row can come from: those with its kind digit, buyer,
\* seller and partner fields
C23_RecordsOf(row) ==
    {msg \in C23_Records : C14_FieldsOfRecord(msg) = C14_FieldsOfRow(row)}

\* C23: the industry/product field of every row is the business product of
\* the reference stored under the pair (SenderCode, SellerNr) of the row's
\* record, and empty when no reference is stored under that pair; a join
\* that raises raises with every reference stored as well, so that an
\* absent reference costs no row.  (The key of the store is the text
\* `${SenderCode}_${SellerNr}`, which two pairs can share.)
C23_ProductOfMatchedReference ==
    Joined =>
        IF ret.threw
        THEN \A r \in Instances["MSG01"] :
                \A out \in generateCombinedDisplayData(
                               MapSet(allMsg01s, storeKey(r), r), allMsg02s,
                               allMsg05s, allMsg07s, exchangeRates) : out.threw
        ELSE \A i \in 1..Len(ret.value) :
                ret.value[i].industryProduct
                    \in {C23_Product(msg) : msg \in C23_RecordsOf(ret.value[i])}

\* two rows have been produced with the product of the reference stored
\* under their pair
C23_Witness ==
    /\ Joined
    /\ ~ret.threw
    /\ Len(ret.value) = 2
    /\ allMsg01s # EmptyMap
    /\ ret.value[1].industryProduct = Str("Steel")
    /\ ret.value[2].industryProduct = Str("Steel")

\* the English display names of the regions the sample factor codes start
\* with
C24_RegionName(code) ==
    CASE code = "" -> ""
      [] code = "TR" -> "Turkey"
      [] code = "US" -> "United States"

\* C24: in every row the partner country is the region display name of the
\* first two characters of the factor code, empty when the factor code is
\* empty; the seller country equals the partner country; and the credit
\* manager is the one getCreditManager gives for those two characters, the
\* conversion of the row's amount and the row's partner name.
C24_CountryFromFactorCode ==
    (Joined /\ ~ret.threw) =>
        \A i \in 1..Len(ret.value) :
            LET row == ret.value[i]
                code == Prefix(row.clientCode.s, 2)
                usd == convertToUSD(row.amountReq, row.currency, exchangeRates)
            IN  /\ row.partnerCountry = Str(C24_RegionName(code))
                /\ row.sellerCountry = row.partnerCountry
                /\ row.creditManager
                      = Str(getCreditManager(code, usd, row.partnerName).value)

\* a row with an empty factor code and a row of a Turkish factor have been
\* produced, and their credit managers differ
C24_Witness ==
    /\ Joined
    /\ ~ret.threw
    /\ \E i, j \in 1..Len(ret.value) :
          /\ ret.value[i].clientCode = Str("")
          /\ ret.value[i].partnerCountry = Str("")
          /\ ret.value[i].creditManager = Str("bost")
          /\ ret.value[j].partnerCountry = Str("Turkey")
          /\ ret.value[j].creditManager = Str("trey")

\* the kind digit, amount, currency and term of a record, from the blocks
\* of its kind
C25_Selection(msg) ==
    LET data == msg.payload
    IN  CASE msg.type = "MSG02" ->
                <<"2", data.PrelCreditAssessDetails.AmtCreditAssessReq,
                  data.PrelCreditAssessDetails.Currency,
                  data.PrelCreditAssessDetails.NetPmtTerms>>
          [] msg.type = "MSG05" ->
                <<"5", data.CreditCoverDetails.NewCreditCoverAmt,
                  data.CreditCoverDetails.Currency,
                  data.CreditCoverDetails.NetPmtTerms>>
          [] msg.type = "MSG07" ->
                <<"7", data.NewCreditCoverDetails.NewCreditCoverAmt,
                  data.CurrentCreditCoverDetails.Currency,
                  data.NewCreditCoverDetails.LongCreditPeriodDays>>

\* C25: every row has the kind digit of its record and takes amount,
\* currency and term from the blocks of that kind: a MSG02 row from
\* AmtCreditAssessReq, Currency and NetPmtTerms of PrelCreditAssessDetails;
\* a MSG05 row from NewCreditCoverAmt, Currency and NetPmtTerms of
\* CreditCoverDetails; a MSG07 row from NewCreditCoverAmt of
\* NewCreditCoverDetails, Currency of CurrentCreditCoverDetails and
\* LongCreditPeriodDays of NewCreditCoverDetails.
C25_PerKindSelection ==
    (Joined /\ ~ret.threw) =>
        \A i \in 1..Len(ret.value) :
            LET row == ret.value[i]
            IN  <<row.messageType.s, row.amountReq, row.currency, row.term>>
                    \in {C25_Selection(msg) : msg \in C23_RecordsOf(row)}

\* rows of all three kinds have been produced, the MSG07 row with the
\* amount of the new cover and the currency of the current cover
C25_Witness ==
    /\ Joined
    /\ ~ret.threw
    /\ \E i, j, k \in 1..Len(ret.value) :
          /\ ret.value[i].messageType = Str("2")
          /\ ret.value[i].term = Num(60)
          /\ ret.value[j].messageType = Str("5")
          /\ ret.value[k].messageType = Str("7")
          /\ ret.value[k].amountReq = Num(600000)
          /\ ret.value[k].term = Num(90)

----------------------------------------------------------------------------
(* Further claims about the store (StoreSpec) *)

\* C26: when the decode of a fragment raises, the reference map and the
\* three transaction sequences are what they were before that fragment.
C26_FailedDecodeKeepsStore ==
    (ret # NotCalled /\ ret.threw) =>
        /\ allMsg01s = arg.before.allMsg01s
        /\ allMsg02s = arg.before.allMsg02s
        /\ allMsg05s = arg.before.allMsg05s
        /\ allMsg07s = arg.before.allMsg07s

\* the decode of a reference without its Seller block has raised while the
\* store held a reference and two kinds of transaction
C26_Witness ==
    /\ ret # NotCalled
    /\ ret.threw
    /\ arg.node.name = "MSG01"
    /\ allMsg01s # EmptyMap
    /\ allMsg02s # <<>>
    /\ allMsg07s # <<>>

----------------------------------------------------------------------------
(* Further claims about the rows of the join (JoinSpec) *)

\* the value convertToUSD returned for a row: the join converts the row's
\* amountReq and currency with the table in exchangeRates
C27_Conversion(row) == convertToUSD(row.amountReq, row.currency, exchangeRates)

\* the blank result, "N/A", "Invalid Amount", "Failed to fetch rates" and
\* the "(No Rate)" placeholder: the results that are status texts
C27_NotANumber(row) ==
    LET usd == C27_Conversion(row)
    IN  \/ usd \in {Str(" "), Str("N/A"), Str("Invalid Amount"),
                    Str("Failed to fetch rates")}
        \/ /\ IsString(usd)
           /\ IsString(row.currency)
           /\ usd.s = toFixed2(parseFloat(row.amountReq)) \o " " \o row.currency.s
                          \o " (No Rate)"

\* C27: every row whose conversion result is not a number carries the
\* credit manager "N/A".
C27_NotANumberIsUnclassifiable ==
    (Joined /\ ~ret.threw) =>
        \A i \in 1..Len(ret.value) :
            C27_NotANumber(ret.value[i]) => ret.value[i].creditManager = Str("N/A")

----------------------------------------------------------------------------
(* The correlation key (StoreSpec) *)

\* the pair a record is correlated by
C28_Pair(record) == <<record.msgInfo.SenderCode, record.seller.SellerNr>>

\* C28: a record that has just been stored shares its key with no stored
\* reference of a different (SenderCode, SellerNr) pair, so it neither
\* overwrites such a reference nor is matched to it.
C28_KeyInjectiveOnPairs ==
    (ret # NotCalled /\ ~ret.threw) =>
        \A k \in DOMAIN arg.before.allMsg01s :
            C28_Pair(arg.before.allMsg01s[k]) # C28_Pair(ret.value)
                => storeKey(ret.value) # k

----------------------------------------------------------------------------
(* The order in which the reads of a batch complete (Spec) *)

\* the stores that storing the documents of files one after the other, in
\* the order of the list, can build from stores
RECURSIVE C29_StoresInListOrder(_, _)
C29_StoresInListOrder(stores, files) ==
    IF files = <<>> THEN stores
    ELSE C29_StoresInListOrder(
             {processNodes(s, nodes) :
                 s \in stores, nodes \in msgNodes(Content[Head(files)])},
             Tail(files))

\* the only click so far has rendered its table
C29_BatchRendered == Len(runs) = 1 /\ runs[1].pc = "rendered"

\* C29: whatever the order in which the reads of a batch complete, the
\* store at the join and the rendered rows are those of the selected file
\* list and the rate table: the ones obtained when the reads complete in
\* the order of the list.
C29_CompletionOrderIrrelevant ==
    C29_BatchRendered =>
        \E s \in C29_StoresInListOrder({Store(EmptyMap, <<>>, <<>>, <<>>)},
                                       runs[1].files) :
            /\ Store(allMsg01s, allMsg02s, allMsg05s, allMsg07s) = s
            /\ Return(output.rows)
                   \in generateCombinedDisplayData(s.allMsg01s, s.allMsg02s,
                           s.allMsg05s, s.allMsg07s, output.exchangeRates)

----------------------------------------------------------------------------
(* Division by the rate (ConvertSpec) *)

\* the call has a currency code other than USD, in whatever case, and a
\* rate table
C30_NonUsd ==
    /\ IsString(arg.currency) /\ arg.currency # Str("")
    /\ ToUpperCase(arg.currency.s) # "USD"
    /\ arg.rates # Null

\* the rate entry of the call's currency code: undefined when the table
\* has none
C30_Rate ==
    LET code == ToUpperCase(arg.currency.s)
    IN  IF code \in DOMAIN arg.rates.table THEN arg.rates.table[code] ELSE Undefined

C30_Falsy(rate) == rate \in {Undefined, Null, NaN, Num(0)}

\* C30: convertToUSD never divides by zero.  For a currency code other than
\* USD whose rate entry is 0 or missing, a numeric amount gets the
\* '(No Rate)' placeholder; and every number returned for such a code is
\* the amount divided by a rate that is not zero: multiplied by the rate it
\* gives the amount back.
C30_NeverDividesByZero ==
    (Converted /\ C30_NonUsd) =>
        /\ (C17_Numeric(arg.amount) /\ C30_Falsy(C30_Rate)) =>
              /\ ~ret.threw
              /\ IsString(ret.value)
              /\ Includes(ret.value.s, "(No Rate)")
        /\ (~ret.threw /\ IsNumber(ret.value)) =>
              /\ ~C30_Falsy(C30_Rate)
              /\ C30_Rate.num # 0
              /\ ret.value.den # 0
              /\ C17_Numeric(arg.amount) =>
                    LET a == C18_ValueOf(arg.amount)
                    IN  ret.value.num * C30_Rate.num * a.den
                            = a.num * ret.value.den * C30_Rate.den

\* an amount has met a table that lists its currency code with the rate 0
C30_Witness ==
    /\ Converted
    /\ C30_NonUsd
    /\ arg.amount = Num(600000)
    /\ arg.currency = Str("XAU")
    /\ arg.rates = SampleRates
    /\ C30_Rate = Num(0)
    /\ ret = Return(Str("600000.00 XAU (No Rate)"))

====
